---- MODULE Spec2Model ----
(***************************************************************************)
(* Hierarchical tensor basis gsHTensorBasis<d,T> (gsHTensorBasis.h) for    *)
(* d = 1: per-level tensor bases, the domain tree, the characteristic      *)
(* matrices and the offset table, with the constructors, the refinement    *)
(* operations and the index queries.                                       *)
(*                                                                         *)
(* The per-level bases are the dyadic refinements of an open-knot-vector   *)
(* B-spline basis with NumElem0 knot spans and degree Degree, so level l   *)
(* has NumElem0 * 2^l elements and NumElem0 * 2^l + Degree functions.      *)
(* Points of the parameter domain are identified with the cells of the     *)
(* finest representable level MaxLvl: every knot of every level is a cell  *)
(* boundary there, so all points of one cell behave alike.                 *)
(***************************************************************************)
EXTENDS Integers, Sequences, FiniteSets, TLC

\* ------------------------------------------------------------------ bounds
\* Template parameter d (dimension of the parameter domain).
d == 1
\* Finest level the tree's index coordinates can express.
MaxLvl == 2
\* Knot spans of the tensor basis handed to the constructor.
NumElem0 == 2
\* Degree of the tensor basis handed to the constructor.
Degree == 1
\* Boxes in the flat vector handed to a constructor.
MaxVecBoxes == 2
\* Boxes (column pairs) in the matrix handed to a constructor.
MaxMatBoxes == 1
\* Mutating calls after construction.
MaxOps == 1

\* ----------------------------------------------------------------- helpers
RECURSIVE Pow2(_)
Pow2(n) == IF n <= 0 THEN 1 ELSE 2 * Pow2(n - 1)

Max(a, b) == IF a >= b THEN a ELSE b
Min(a, b) == IF a <= b THEN a ELSE b

RECURSIVE SetMax(_)
SetMax(S) ==
    IF S = {} THEN -1
    ELSE LET x == CHOOSE y \in S : TRUE
         IN  Max(x, SetMax(S \ {x}))

RECURSIVE SumLen(_, _)
\* Sum of the lengths of the first n entries of a sequence of sequences.
SumLen(xs, n) == IF n = 0 THEN 0 ELSE SumLen(xs, n - 1) + Len(xs[n])

\* ------------------------------- per-level tensor bases (knot vectors)
\* Number of elements (knot spans) of level l.
NumCells(l) == NumElem0 * Pow2(l)
\* Number of functions of the level-l tensor basis (open knot vector).
NumFuncs(l) == NumCells(l) + Degree
\* Cells of the finest level: the points of the parameter domain.
NumFine == NumCells(MaxLvl)
Points == 0 .. (NumFine - 1)
\* Physical coordinates, in units of one finest cell: 0 .. NumFine.
Coords == 0 .. NumFine
Levels == 0 .. MaxLvl
\* Finest cells per level-l cell.
Scale(l) == Pow2(MaxLvl - l)

\* Element support of function j of level l, [lo, hi) in level-l elements.
elementSupport(l, j) ==
    [lo |-> Max(0, j - Degree), hi |-> Min(j + 1, NumCells(l))]

\* The points (finest cells) of the support of function j of level l.
SupportPoints(l, j) ==
    LET s == elementSupport(l, j)
    IN  { c \in Points : s.lo * Scale(l) <= c /\ c < s.hi * Scale(l) }

\* Uniquefindspan of a level-l knot vector: the index of the knot span
\* holding coordinate x; the right end of the domain is in the last span.
Uniquefindspan(l, x) ==
    IF x >= NumFine THEN NumCells(l) - 1 ELSE x \div Scale(l)

\* ------------------------------------------------------------ domain tree
\* A leaf is [lo, hi) in finest index coordinates, tagged with its level.
TreeInit ==
    [leaves |-> {[lo |-> 0, hi |-> NumFine, level |-> 0]}, maxInsLevel |-> 0]

\* The split with the new piece not clipped to the leaf it replaces.
SplitLeaf_unclipped(leaf, lo, hi, lvl) ==
    IF leaf.level >= lvl \/ leaf.hi <= lo \/ hi <= leaf.lo
    THEN {leaf}
    ELSE ( IF leaf.lo < lo
           THEN {[lo |-> leaf.lo, hi |-> lo, level |-> leaf.level]} ELSE {} )
         \cup {[lo |-> lo, hi |-> hi, level |-> lvl]}
         \cup ( IF hi < leaf.hi
                THEN {[lo |-> hi, hi |-> leaf.hi, level |-> leaf.level]} ELSE {} )

\* The pieces a leaf is split into by the box [lo, hi) inserted at lvl.
SplitLeaf(leaf, lo, hi, lvl) ==
    IF leaf.level >= lvl \/ leaf.hi <= lo \/ hi <= leaf.lo
    THEN {leaf}
    ELSE ( IF leaf.lo < lo
           THEN {[lo |-> leaf.lo, hi |-> lo, level |-> leaf.level]} ELSE {} )
         \cup {[lo |-> Max(leaf.lo, lo), hi |-> Min(leaf.hi, hi), level |-> lvl]}
         \cup ( IF hi < leaf.hi
                THEN {[lo |-> hi, hi |-> leaf.hi, level |-> leaf.level]} ELSE {} )

\* gsHDomain::insertBox: box [k1, k2) in level-lvl index coordinates.
TreeInsertBox(tree, k1, k2, lvl) ==
    LET lo == k1 * Scale(lvl)
        hi == k2 * Scale(lvl)
    IN  [leaves |-> UNION { SplitLeaf(leaf, lo, hi, lvl) : leaf \in tree.leaves },
         maxInsLevel |-> Max(tree.maxInsLevel, lvl)]

\* The leaves governing point c.
LeavesAt(tree, c) == { leaf \in tree.leaves : leaf.lo <= c /\ c < leaf.hi }

\* Tree lookup of the level at point c.
TreeLevelAt(tree, c) == (CHOOSE leaf \in LeavesAt(tree, c) : TRUE).level

\* query3 returning the level of the first leaf it meets in the box (the
\* leftmost one) instead of the maximum over all of them.
query3_firstLeaf(tree, k1, k2, level) ==
    LET lo == k1 * Scale(level)
        hi == k2 * Scale(level)
        met == { x \in tree.leaves :
                   x.lo < hi /\ lo < x.hi /\ x.level <= level }
    IN  IF met = {} THEN 0 - 1
        ELSE (CHOOSE x \in met : \A y \in met : x.lo <= y.lo).level

\* gsHDomain::query3: the maximum level <= level assigned to any part of
\* the box [k1, k2), given in level-`level` index coordinates.
query3(tree, k1, k2, level) ==
    LET lo == k1 * Scale(level)
        hi == k2 * Scale(level)
    IN  SetMax({ leaf.level : leaf \in
                   { x \in tree.leaves :
                       x.lo < hi /\ lo < x.hi /\ x.level <= level } })

\* ------------------------------------------------- hierarchical basis
\* A basis value: the fields of one gsHTensorBasis object. m_bases is the
\* number of instantiated per-level bases (level l is the l-fold dyadic
\* refinement of the base, so the count determines the vector); pc is
\* "ready" for a usable object and "aborted" once a fatal assertion or an
\* out-of-bounds access has ended the call that detected it.
Basis(nb, tree, xm, off, pc_) ==
    [m_bases |-> nb, m_tree |-> tree, m_xmatrix |-> xm,
     m_xmatrix_offset |-> off, pc |-> pc_]

Abort(b) == [b EXCEPT !.pc = "aborted"]

\* initialize_class: the given tensor basis becomes level 0, the tree is
\* one leaf of level 0; nb per-level bases are instantiated.
initialize_class(nb) == Basis(nb, TreeInit, <<>>, <<>>, "ready")

\* needLevel / createMoreLevels: make sure level maxLevel_ is instantiated.
needLevel(b, maxLevel_) ==
    LET extraLevels == maxLevel_ + 1 - b.m_bases
    IN  IF extraLevels > 0
        THEN [b EXCEPT !.m_bases = b.m_bases + extraLevels]
        ELSE b

\* maxLevel() taken from the number of characteristic matrices instead of
\* the tree.
maxLevel_numMatrices(b) == Len(b.m_xmatrix) - 1

\* maxLevel(): the tree's highest inserted level.
maxLevel(b) == b.m_tree.maxInsLevel

\* getLevelAtPoint: tree lookup.
getLevelAtPoint(b, c) == TreeLevelAt(b.m_tree, c)

RECURSIVE set_activ1_touching(_, _, _)
\* The selection taking every function whose support touches level l.
set_activ1_touching(tree, l, j) ==
    IF j >= NumFuncs(l) THEN <<>>
    ELSE LET s == elementSupport(l, j)
             tagged == { leaf.level : leaf \in
                           { x \in tree.leaves :
                               x.lo < s.hi * Scale(l) /\ s.lo * Scale(l) < x.hi } }
         IN  ( IF l \in tagged THEN <<j>> ELSE <<>> )
             \o set_activ1_touching(tree, l, j + 1)

RECURSIVE set_activ1(_, _, _)
\* The characteristic matrix of level l: the functions j, j+1, ... of the
\* level's tensor basis whose whole support the tree tags with level l,
\* in increasing order.
set_activ1(tree, l, j) ==
    IF j >= NumFuncs(l) THEN <<>>
    ELSE LET s == elementSupport(l, j)
             tagged == { leaf.level : leaf \in
                           { x \in tree.leaves :
                               x.lo < s.hi * Scale(l) /\ s.lo * Scale(l) < x.hi } }
         IN  ( IF tagged = {l} THEN <<j>> ELSE <<>> )
             \o set_activ1(tree, l, j + 1)

RECURSIVE Offsets(_, _)
\* The offset table of the first n characteristic matrices (n + 1 entries).
Offsets(xm, n) ==
    IF n = 0 THEN <<0>>
    ELSE LET prev == Offsets(xm, n - 1)
         IN  Append(prev, prev[n] + Len(xm[n]))

\* update_structure patching the matrices it already has: the functions
\* found are appended to each level's existing matrix.
update_structure_patch(b) ==
    IF b.pc # "ready" THEN b
    ELSE LET xm == [k \in 1 .. (maxLevel(b) + 1) |->
                      ( IF k <= Len(b.m_xmatrix) THEN b.m_xmatrix[k] ELSE <<>> )
                      \o set_activ1(b.m_tree, k - 1, 0)]
         IN  [b EXCEPT !.m_xmatrix = xm,
                       !.m_xmatrix_offset = Offsets(xm, Len(xm))]

\* update_structure: rebuild every characteristic matrix and the offsets.
update_structure(b) ==
    IF b.pc # "ready" THEN b
    ELSE LET xm == [k \in 1 .. (maxLevel(b) + 1) |->
                      set_activ1(b.m_tree, k - 1, 0)]
         IN  [b EXCEPT !.m_xmatrix = xm,
                       !.m_xmatrix_offset = Offsets(xm, Len(xm))]

\* m_tree.insertBox as the basis uses it: asserts that the level is
\* instantiated and that the box is a proper box of the level's index space.
insertBox(b, k1, k2, lvl) ==
    IF b.pc # "ready" THEN b
    ELSE IF lvl > b.m_bases - 1 \/ lvl > MaxLvl THEN Abort(b)
    ELSE IF ~(k1 < k2 /\ k2 <= NumCells(lvl)) THEN Abort(b)
    ELSE [b EXCEPT !.m_tree = TreeInsertBox(b.m_tree, k1, k2, lvl)]

\* insert_box: insert a domain into the tree.
insert_box(b, k1, k2, lvl) == insertBox(b, k1, k2, lvl)

\* size(): the number of basis functions, the last offset.
size(b) == b.m_xmatrix_offset[Len(b.m_xmatrix_offset)]

\* --------------------------------------------------------- constructors
\* What a read outside a vector's bounds yields in this model.
Wild == 0 - 1

\* Element idx (counted from 0) of a std::vector.
At0(v, idx) == IF 0 <= idx /\ idx < Len(v) THEN v[idx + 1] ELSE Wild

\* The state of an object whose constructor failed before initialize_class.
Unconstructed == Basis(0, TreeInit, <<>>, <<>>, "aborted")

\* gsHTensorBasis(tbasis, nlevels).
ctorPlain(nb, nlevels) ==
    IF ~(nlevels > 0) THEN Unconstructed
    ELSE update_structure(initialize_class(nb))

RECURSIVE ctorVecLoop(_, _, _)
\* The loop over the boxes of a flat vector: box i is
\* (level, lower corner, upper corner) at positions (2d+1)i, +1.., +d+1..
ctorVecLoop(b, boxes, i) ==
    IF ~(i < Len(boxes) \div (2 * d + 1)) THEN b
    ELSE LET i1 == At0(boxes, (2 * d + 1) * i + 0 + 1)
             i2 == At0(boxes, (2 * d + 1) * i + 0 + d + 1)
         IN  ctorVecLoop(insert_box(b, i1, i2, At0(boxes, i * (2 * d + 1))),
                         boxes, i + 1)

\* The flat-vector constructor without its closing update_structure().
ctorVec_noUpdate(nb, nlevels, boxes) ==
    IF ~(nlevels > 0) THEN Unconstructed
    ELSE LET b0 == initialize_class(nb)
         IN  IF ~(Len(boxes) % (2 * d + 1) = 0) THEN Abort(b0)
             ELSE ctorVecLoop(b0, boxes, 0)

\* The flat-vector constructor with update_structure() called before the
\* boxes are inserted instead of after.
ctorVec_updateFirst(nb, nlevels, boxes) ==
    IF ~(nlevels > 0) THEN Unconstructed
    ELSE LET b0 == initialize_class(nb)
         IN  IF ~(Len(boxes) % (2 * d + 1) = 0) THEN Abort(b0)
             ELSE ctorVecLoop(update_structure(b0), boxes, 0)

\* gsHTensorBasis(tbasis, nlevels, std::vector<unsigned> boxes).
ctorVec(nb, nlevels, boxes) ==
    IF ~(nlevels > 0) THEN Unconstructed
    ELSE LET b0 == initialize_class(nb)
         IN  IF ~(Len(boxes) % (2 * d + 1) = 0) THEN Abort(b0)
             ELSE update_structure(ctorVecLoop(b0, boxes, 0))

\* A gsMatrix of coordinates: [rows, cols], cols the sequence of columns.
MatRows(m) == m.rows
MatCols(m) == Len(m.cols)
MatAt(m, j, c) == m.cols[c + 1][j + 1]

\* The coordinate-box step with the corners left in the finest level's index
\* coordinates (the recomputation at level+1 left out).
physBoxStep_staleCorners(b, lo, hi) ==
    IF b.pc # "ready" THEN b
    ELSE LET back  == b.m_bases - 1
             level == query3(b.m_tree, Uniquefindspan(back, lo),
                             Uniquefindspan(back, hi) + 1, back)
         IN  IF level + 1 > b.m_bases - 1 THEN Abort(b)
             ELSE update_structure(
                    insert_box(b, Uniquefindspan(back, lo),
                               Uniquefindspan(back, hi) + 1, level + 1))

\* The coordinate-box step inserting at the level found, not one above it.
physBoxStep_sameLevel(b, lo, hi) ==
    IF b.pc # "ready" THEN b
    ELSE LET back  == b.m_bases - 1
             level == query3(b.m_tree, Uniquefindspan(back, lo),
                             Uniquefindspan(back, hi) + 1, back)
         IN  IF level + 1 > b.m_bases - 1 THEN Abort(b)
             ELSE update_structure(
                    insert_box(b, Uniquefindspan(level, lo),
                               Uniquefindspan(level, hi) + 1, level))

\* One box given in coordinates [lo, hi]: the level is one above the level
\* query3 finds in the box at the finest instantiated level; the box is
\* inserted there and the structure rebuilt. Reading m_bases[level+1] when
\* level+1 is not instantiated is out of bounds: the read yields a wild
\* pointer, and the call either crashes on it or reaches insert_box with a
\* level that is not instantiated, which asserts; both end the call.
physBoxStep(b, lo, hi) ==
    IF b.pc # "ready" THEN b
    ELSE LET back  == b.m_bases - 1
             level == query3(b.m_tree, Uniquefindspan(back, lo),
                             Uniquefindspan(back, hi) + 1, back)
         IN  IF level + 1 > b.m_bases - 1 THEN Abort(b)
             ELSE update_structure(
                    insert_box(b, Uniquefindspan(level + 1, lo),
                               Uniquefindspan(level + 1, hi) + 1, level + 1))

RECURSIVE ctorMatLoop(_, _, _)
ctorMatLoop(b, boxes, i) ==
    IF ~(i < MatCols(boxes) \div 2) THEN b
    ELSE ctorMatLoop(physBoxStep(b, MatAt(boxes, 0, 2 * i),
                                 MatAt(boxes, 0, 2 * i + 1)),
                     boxes, i + 1)

\* gsHTensorBasis(tbasis, nlevels, gsMatrix<T> boxes).
ctorMat(nb, nlevels, boxes) ==
    IF ~(MatRows(boxes) = d) THEN Unconstructed
    ELSE IF ~(MatCols(boxes) % 2 = 0) THEN Unconstructed
    ELSE IF ~(nlevels > 0) THEN Unconstructed
    ELSE ctorMatLoop(initialize_class(nb), boxes, 0)

RECURSIVE ctorLvlLoop_noUpdate(_, _, _, _)
\* The explicit-levels loop without update_structure() after each box.
ctorLvlLoop_noUpdate(b, boxes, levels, i) ==
    IF ~(i < MatCols(boxes) \div 2) \/ b.pc # "ready" THEN b
    ELSE LET k1 == Uniquefindspan(At0(levels, i), MatAt(boxes, 0, 2 * i))
             k2 == Uniquefindspan(At0(levels, i), MatAt(boxes, 0, 2 * i + 1)) + 1
         IN  ctorLvlLoop_noUpdate(insertBox(b, k1, k2, At0(levels, i)),
                                  boxes, levels, i + 1)

RECURSIVE ctorLvlLoop(_, _, _, _)
ctorLvlLoop(b, boxes, levels, i) ==
    IF ~(i < MatCols(boxes) \div 2) \/ b.pc # "ready" THEN b
    ELSE LET k1 == Uniquefindspan(At0(levels, i), MatAt(boxes, 0, 2 * i))
             k2 == Uniquefindspan(At0(levels, i), MatAt(boxes, 0, 2 * i + 1)) + 1
         IN  ctorLvlLoop(update_structure(insertBox(b, k1, k2, At0(levels, i))),
                         boxes, levels, i + 1)

\* The explicit-levels constructor without the needLevel(mLevel) call.
ctorLvl_noNeedLevel(nb, nlevels, boxes, levels, wild) ==
    IF ~(MatRows(boxes) = d) THEN Unconstructed
    ELSE IF ~(MatCols(boxes) % 2 = 0) THEN Unconstructed
    ELSE IF ~(MatCols(boxes) \div 2 <= Len(levels)) THEN Unconstructed
    ELSE LET b0     == initialize_class(nb)
             mLevel == IF Len(levels) = 0 THEN wild
                       ELSE SetMax({ levels[k] : k \in 1 .. Len(levels) })
         IN  IF mLevel < 0 THEN Abort(b0)
             ELSE ctorLvlLoop(b0, boxes, levels, 0)

\* gsHTensorBasis(tbasis, nlevels, gsMatrix<T> boxes, std::vector levels).
\* std::max_element of an empty vector returns end(); dereferencing it reads
\* outside the vector: wild is what that read yields (-1: the read faults).
ctorLvl(nb, nlevels, boxes, levels, wild) ==
    IF ~(MatRows(boxes) = d) THEN Unconstructed
    ELSE IF ~(MatCols(boxes) % 2 = 0) THEN Unconstructed
    ELSE IF ~(MatCols(boxes) \div 2 <= Len(levels)) THEN Unconstructed
    ELSE LET b0     == initialize_class(nb)
             mLevel == IF Len(levels) = 0 THEN wild
                       ELSE SetMax({ levels[k] : k \in 1 .. Len(levels) })
         IN  IF mLevel < 0 THEN Abort(b0)
             ELSE ctorLvlLoop(needLevel(b0, mLevel), boxes, levels, 0)

\* ------------------------------------------------------------- queries
RECURSIVE upper_bound(_, _, _, _)
\* std::upper_bound on v[first, first+len): the first position whose
\* element is greater than val, by bisection.
upper_bound(v, first, len, val) ==
    IF ~(len > 0) THEN first
    ELSE LET half   == len \div 2
             middle == first + half
         IN  IF val < At0(v, middle)
             THEN upper_bound(v, first, half, val)
             ELSE upper_bound(v, middle + 1, len - half - 1, val)

RECURSIVE lower_bound(_, _, _, _)
\* std::lower_bound: the first position whose element is not less than val.
lower_bound(v, first, len, val) ==
    IF ~(len > 0) THEN first
    ELSE LET half   == len \div 2
             middle == first + half
         IN  IF At0(v, middle) < val
             THEN lower_bound(v, middle + 1, len - half - 1, val)
             ELSE lower_bound(v, first, half, val)

\* levelOf with lower_bound in place of upper_bound.
levelOf_lowerBound(b, i) ==
    lower_bound(b.m_xmatrix_offset, 0, Len(b.m_xmatrix_offset), i) - 0 - 1

\* levelOf(i): the level of the function with global index i.
levelOf(b, i) ==
    upper_bound(b.m_xmatrix_offset, 0, Len(b.m_xmatrix_offset), i) - 0 - 1

\* flatTensorIndexOf(i, level).
flatTensorIndexOf2(b, i, level) ==
    LET offset == At0(b.m_xmatrix_offset, level)
    IN  At0(At0(b.m_xmatrix, level), i - offset)

\* flatTensorIndexOf(i) indexing the matrix with i itself, the level's
\* offset not subtracted.
flatTensorIndexOf_noOffset(b, i) ==
    LET level == levelOf(b, i)
    IN  At0(At0(b.m_xmatrix, level), i)

\* flatTensorIndexOf(i).
flatTensorIndexOf(b, i) ==
    LET level  == levelOf(b, i)
        offset == At0(b.m_xmatrix_offset, level)
    IN  At0(At0(b.m_xmatrix, level), i - offset)

\* flatTensorIndexToHierachicalIndex(index, level): the hierarchical index
\* of tensor index `index` of `level`, or -1 if it is not found.
flatTensorIndexToHierachicalIndex(b, index, level) ==
    IF ~(level < Len(b.m_xmatrix)) THEN 0 - 1
    ELSE LET cm  == At0(b.m_xmatrix, level)
             pos == { k \in 0 .. (Len(cm) - 1) : At0(cm, k) = index }
         IN  IF pos = {} THEN 0 - 1
             ELSE At0(b.m_xmatrix_offset, level) + (CHOOSE k \in pos : TRUE)

\* ---------------------------------------------------------- refinement
RECURSIVE refineElementsLoop(_, _, _)
refineElementsLoop(b, boxes, i) ==
    IF ~(i < Len(boxes) \div (2 * d + 1)) THEN b
    ELSE LET i1 == At0(boxes, (2 * d + 1) * i + 0 + 1)
             i2 == At0(boxes, (2 * d + 1) * i + 0 + d + 1)
         IN  refineElementsLoop(
               update_structure(
                 insert_box(b, i1, i2, At0(boxes, i * (2 * d + 1)))),
               boxes, i + 1)

\* refineElements(boxes): boxes as (level, lower, upper) index tuples.
refineElements(b, boxes) ==
    IF ~(Len(boxes) % (2 * d + 1) = 0) THEN Abort(b)
    ELSE refineElementsLoop(b, boxes, 0)

\* refine(boxes): boxes as coordinate ranges, translated as in construction.
refine(b, boxes) ==
    IF ~(MatRows(boxes) = d) THEN Abort(b)
    ELSE IF ~(MatCols(boxes) % 2 = 0) THEN Abort(b)
    ELSE ctorMatLoop(b, boxes, 0)

\* uniformRefine: the whole domain moves one dyadic level up; the new
\* finest level is created as needed.
uniformRefine(b) ==
    LET b1 == needLevel(b, maxLevel(b) + 1)
        t  == [leaves |-> { [leaf EXCEPT !.level = leaf.level + 1] :
                              leaf \in b.m_tree.leaves },
               maxInsLevel |-> b.m_tree.maxInsLevel + 1]
    IN  update_structure([b1 EXCEPT !.m_tree = t])

\* tensorLevel(i) sizing the level sequence to exactly i + 1 levels.
tensorLevel_resize(b, i) == [b EXCEPT !.m_bases = i + 1]

\* tensorLevel(i) without the needLevel(i) call: m_bases[i] is read past
\* the end when level i is not instantiated.
tensorLevel_noNeedLevel(b, i) == IF i > b.m_bases - 1 THEN Abort(b) ELSE b

\* tensorLevel(i): the tensor basis of level i, instantiated on demand.
tensorLevel(b, i) == needLevel(b, i)

\* ----------------------------------------------------------------- inputs
\* Proper boxes (level, lower, upper) of the levels' index spaces.
IdxBoxes ==
    { <<l, k1, k2>> : l \in Levels, k1 \in 0 .. NumCells(MaxLvl),
                      k2 \in 0 .. NumCells(MaxLvl) } \cap
    { t \in Levels \X Nat \X Nat : t[2] < t[3] /\ t[3] <= NumCells(t[1]) }

\* Boxes given as coordinate ranges [lo, hi].
PhysBoxes == { <<lo, hi>> \in Coords \X Coords : lo < hi }

SeqsUpTo(S, n) == UNION { [1 .. k -> S] : k \in 0 .. n }

RECURSIVE FlatOf(_)
\* The flat vector of a list of index boxes.
FlatOf(bs) == IF bs = <<>> THEN <<>> ELSE Head(bs) \o FlatOf(Tail(bs))

RECURSIVE ColsOf(_)
ColsOf(bs) ==
    IF bs = <<>> THEN <<>>
    ELSE << <<Head(bs)[1]>>, <<Head(bs)[2]>> >> \o ColsOf(Tail(bs))

\* The d x 2n matrix of a list of coordinate boxes.
MatOf(bs) == [rows |-> d, cols |-> ColsOf(bs)]

\* Level counts handed to a constructor.
NLevelsIn == 0 .. 1
\* Per-level bases initialize_class may instantiate.
InitBases == 1 .. (MaxLvl + 1)
\* The levels vector of the constructor with explicit levels, with what
\* the read of max_element yields when the vector is empty.
LevelsIn ==
    { <<lv, 0>> : lv \in SeqsUpTo(Levels, MaxMatBoxes + 1) \ {<<>>} }
    \cup { <<<<>>, w>> : w \in {Wild} \cup Levels }

\* ------------------------------------------------------------------ state
\* The object's fields; pc as in Basis; ops counts the mutating calls made;
\* built tells whether update_structure has run on the object; last is the
\* last call with the index box (level, lower, upper) it inserted.
VARIABLES m_bases, m_xmatrix, m_tree, m_xmatrix_offset, pc, ops, built, last

\* A second basis object: the one a copy was made from.
VARIABLES orig

\* A gsFileRepo with the files that exist and its last find call.
VARIABLES repo

\* A call of _differenceBetweenKnotVectors: its arguments and locals.
VARIABLES kv

\* A call of gsCDRAssembler::assemble: the assembler's state, the position
\* in the call, and the calls it has made so far.
VARIABLES cdr

BasisVars == <<m_bases, m_xmatrix, m_tree, m_xmatrix_offset, pc, ops, built, last>>

vars == <<m_bases, m_xmatrix, m_tree, m_xmatrix_offset, pc, ops, built, last,
          orig, repo, kv, cdr>>

\* No second object exists: orig holds an object and the fields of it
\* whose storage the copy shares.
NoObject == [obj |-> Basis(0, TreeInit, <<>>, <<>>, "none"), shares |-> {}]

\* What lies outside the basis object, and its state while only the basis
\* object is worked on.
\* No file repository is in use.
NoRepo == [m_paths |-> <<>>, files |-> {}, arg |-> <<>>, fn |-> <<>>, ret |-> "none"]

\* No call of _differenceBetweenKnotVectors is in progress.
NoKv == [at |-> "none", ckv |-> <<>>, fkv |-> <<>>, c_low |-> 0, c_high |-> 0,
         f_low |-> 0, f_high |-> 0, c_index |-> 0, f_index |-> 0,
         knots |-> <<>>, iters |-> 0, read |-> 0]

\* No call of gsCDRAssembler::assemble is in progress.
NoCdr == [at |-> "none", initialized |-> FALSE, numDofs |-> 0,
          DirichletStrategy |-> "none", InterfaceStrategy |-> "none",
          log |-> <<>>]

OtherVars == << orig, repo, kv, cdr >>
Idle == orig = NoObject /\ repo = NoRepo /\ kv = NoKv /\ cdr = NoCdr

\* The object as a basis value.
Self == Basis(m_bases, m_tree, m_xmatrix, m_xmatrix_offset, pc)

\* The fields of the object become those of b.
Assigned(b) ==
    /\ m_bases' = b.m_bases
    /\ m_tree' = b.m_tree
    /\ m_xmatrix' = b.m_xmatrix
    /\ m_xmatrix_offset' = b.m_xmatrix_offset
    /\ pc' = b.pc

Becomes(b) == UNCHANGED OtherVars /\ Assigned(b)

\* The object after constructor `name` returned c; upd tells whether the
\* constructor's path ran update_structure.
Constructed(c, name, upd) ==
    /\ \E b \in {c} :
          /\ m_bases = b.m_bases
          /\ m_tree = b.m_tree
          /\ m_xmatrix = b.m_xmatrix
          /\ m_xmatrix_offset = b.m_xmatrix_offset
          /\ pc = b.pc
          /\ built = (upd /\ b.pc = "ready")
    /\ ops = 0
    /\ last = [op |-> name, box |-> <<>>]
    /\ Idle

Init ==
    \E nb \in InitBases :
       \/ \E nl \in NLevelsIn :
             Constructed(ctorPlain(nb, nl), "ctorPlain", TRUE)
       \/ \E nl \in NLevelsIn, bs \in SeqsUpTo(IdxBoxes, MaxVecBoxes) :
             Constructed(ctorVec(nb, nl, FlatOf(bs)), "ctorVec", TRUE)
       \/ \E nl \in NLevelsIn, bs \in SeqsUpTo(PhysBoxes, MaxMatBoxes) :
             Constructed(ctorMat(nb, nl, MatOf(bs)), "ctorMat", Len(bs) > 0)
       \/ \E nl \in NLevelsIn, bs \in SeqsUpTo(PhysBoxes, MaxMatBoxes),
             lv \in LevelsIn :
             Constructed(ctorLvl(nb, nl, MatOf(bs), lv[1], lv[2]), "ctorLvl",
                         Len(bs) > 0)

\* The index box (level, lower, upper) refine inserts for [lo, hi].
physBox(b, lo, hi) ==
    LET back  == b.m_bases - 1
        level == query3(b.m_tree, Uniquefindspan(back, lo),
                        Uniquefindspan(back, hi) + 1, back)
    IN  IF level + 1 > back THEN <<>>
        ELSE << level + 1, Uniquefindspan(level + 1, lo),
                Uniquefindspan(level + 1, hi) + 1 >>

CanCall == pc = "ready" /\ ops < MaxOps

\* refineElements with one box (a call with several boxes acts as the
\* calls with each box in turn: the structure is rebuilt after every box).
RefineElements(box) ==
    /\ CanCall
    /\ \E nb \in {refineElements(Self, FlatOf(<<box>>))} :
          /\ Becomes(nb)
          /\ built' = (built \/ nb.pc = "ready")
    /\ ops' = ops + 1
    /\ last' = [op |-> "refineElements", box |-> box]

\* refine with one box given in coordinates.
Refine(pb) ==
    /\ CanCall
    /\ \E nb \in {refine(Self, MatOf(<<pb>>))} :
          /\ Becomes(nb)
          /\ built' = (built \/ nb.pc = "ready")
    /\ ops' = ops + 1
    /\ last' = [op |-> "refine", box |-> physBox(Self, pb[1], pb[2])]

\* The caller makes its last refineElements call once more, with the same
\* box.
RefineElementsAgain ==
    /\ pc = "ready"
    /\ ops <= MaxOps
    /\ last.op = "refineElements"
    /\ \E nb \in {refineElements(Self, FlatOf(<<last.box>>))} :
          /\ Becomes(nb)
          /\ built' = (built \/ nb.pc = "ready")
    /\ ops' = ops + 1
    /\ last' = [op |-> "refineElements", box |-> last.box]

\* uniformRefine, while the tree can express one more level.
UniformRefine ==
    /\ CanCall
    /\ maxLevel(Self) < MaxLvl
    /\ \E nb \in {uniformRefine(Self)} : Becomes(nb)
    /\ built' = TRUE
    /\ ops' = ops + 1
    /\ last' = [op |-> "uniformRefine", box |-> <<>>]

\* tensorLevel(i) (also numKnots(i, k), knot(i, k, j)): needLevel(i).
TensorLevel(i) ==
    /\ CanCall
    /\ \E nb \in {tensorLevel(Self, i)} : Becomes(nb)
    /\ UNCHANGED built
    /\ ops' = ops + 1
    /\ last' = [op |-> "tensorLevel", box |-> <<>>, lvl |-> i]

Next ==
    \/ \E box \in IdxBoxes : RefineElements(box)
    \/ RefineElementsAgain
    \/ \E pb \in PhysBoxes : Refine(pb)
    \/ UniformRefine
    \/ \E i \in Levels : TensorLevel(i)

Spec == Init /\ [][Next]_vars

\* ------------------------------------------------- construction, any input
\* Index boxes whose lower corner is not below the upper one.
BadIdxBoxes ==
    { <<l, k, k>> : l \in Levels, k \in 0 .. (NumCells(MaxLvl) - 1) }
    \cup { <<l, k + 1, k>> : l \in Levels, k \in 0 .. (NumCells(MaxLvl) - 1) }

\* Flat box vectors a caller may pass: lists of proper and improper boxes,
\* and vectors cut short by one or two numbers.
VecInputs ==
    { FlatOf(bs) : bs \in SeqsUpTo(IdxBoxes \cup BadIdxBoxes, MaxVecBoxes) }
    \cup { SubSeq(FlatOf(bs), 1, Len(FlatOf(bs)) - k) :
             bs \in SeqsUpTo(IdxBoxes, MaxVecBoxes) \ {<<>>}, k \in 1 .. 2 }

RECURSIVE Column(_, _)
\* A column of r entries, x in the first row.
Column(x, r) == IF r <= 1 THEN <<x>> ELSE Append(Column(x, r - 1), 0)

RECURSIVE Columns(_, _)
\* The columns of r entries with first rows xs.
Columns(xs, r) ==
    IF xs = <<>> THEN <<>>
    ELSE <<Column(Head(xs), r)>> \o Columns(Tail(xs), r)

\* The r x n matrix with first row xs; the rows beyond the first hold 0.
MatRowsOf(xs, r) == [rows |-> r, cols |-> Columns(xs, r)]

\* First rows of the matrices a caller may pass with r rows: d or d+1 rows,
\* an even or odd number of columns, corners in any order.
MatInputs(r) ==
    SeqsUpTo(Coords, IF r = d THEN 2 * MaxMatBoxes + 1 ELSE 2 * MaxMatBoxes)

\* First rows of the matrices passed together with explicit levels.
MatLvlInputs == SeqsUpTo(Coords, 2 * MaxMatBoxes)

RECURSIVE VectorOf(_)
\* The std::vector holding the sequence xs (the constructor's own copy).
VectorOf(xs) ==
    IF xs = <<>> THEN <<>> ELSE <<Head(xs)>> \o VectorOf(Tail(xs))

\* No basis object has been constructed.
NoBasis ==
    /\ m_bases = 0
    /\ m_tree = TreeInit
    /\ m_xmatrix = <<>>
    /\ m_xmatrix_offset = <<>>
    /\ pc = "new"
    /\ ops = 0
    /\ built = FALSE
    /\ last = [op |-> "none", box |-> <<>>]

\* The object before its constructor has run.
InitNew == NoBasis /\ Idle

\* The matrix argument of a constructor that takes none.
NoMat == [rows |-> 0, cols |-> <<>>]

\* Constructor `name` called with (nl, vec or mat, levels) on a tensor
\* basis for which initialize_class instantiates nb levels has returned c;
\* last keeps the arguments.
CtorDone(c, name, nb, nl, vec, mat, levels, upd) ==
    /\ \E b \in {c} :
          /\ Becomes(b)
          /\ built' = (upd /\ b.pc = "ready")
    /\ UNCHANGED ops
    /\ last' = [op |-> name, box |-> <<>>, nb |-> nb, nlevels |-> nl,
                vec |-> vec, mat |-> mat, levels |-> levels]

NewPlain ==
    /\ pc = "new"
    /\ \E nb \in InitBases, nl \in NLevelsIn :
          CtorDone(ctorPlain(nb, nl), "ctorPlain", nb, nl, <<>>, NoMat, <<>>,
                   TRUE)

NewVec ==
    /\ pc = "new"
    /\ \E nb \in InitBases, nl \in NLevelsIn, v \in VecInputs :
          CtorDone(ctorVec(nb, nl, v), "ctorVec", nb, nl, v, NoMat, <<>>, TRUE)

NewMat ==
    /\ pc = "new"
    /\ \E nb \in InitBases, nl \in NLevelsIn, r \in {d, d + 1} :
          \E xs \in MatInputs(r) :
             CtorDone(ctorMat(nb, nl, MatRowsOf(xs, r)), "ctorMat", nb, nl,
                      <<>>, MatRowsOf(xs, r), <<>>, Len(xs) \div 2 > 0)

NewLvl ==
    /\ pc = "new"
    /\ \E nb \in InitBases, nl \in NLevelsIn, r \in {d, d + 1} :
          \E xs \in MatLvlInputs, lv \in LevelsIn :
             CtorDone(ctorLvl(nb, nl, MatRowsOf(xs, r), VectorOf(lv[1]), lv[2]),
                      "ctorLvl", nb, nl, <<>>, MatRowsOf(xs, r),
                      VectorOf(lv[1]), Len(xs) \div 2 > 0)

NextCtor == NewPlain \/ NewVec \/ NewMat \/ NewLvl

SpecCtor == InitNew /\ [][NextCtor]_vars

\* ----------------------------------------------------------------- queries
\* Evaluation points are the knots of the finest grid; a point belongs to
\* the cell it starts (cells are closed-open), the right end of the domain
\* to the last cell.
cellOf(x) == Min(x, NumFine - 1)

\* flatTensorIndexOf(i) and elementSupport_into(i) read
\* m_xmatrix[lvl][i - m_xmatrix_offset[lvl]] with lvl = levelOf(i): the read
\* is inside the vectors.
xmatrixReadInBounds(b, i) ==
    LET lvl == levelOf(b, i)
    IN  /\ 0 <= lvl /\ lvl < Len(b.m_xmatrix_offset) /\ lvl < Len(b.m_xmatrix)
        /\ 0 <= i - b.m_xmatrix_offset[lvl + 1]
        /\ i - b.m_xmatrix_offset[lvl + 1] < Len(b.m_xmatrix[lvl + 1])

\* elementSupport_into reads m_bases[lvl] as well.
basesReadInBounds(b, i) == levelOf(b, i) < b.m_bases

\* elementSupport_into(i, result): the element support of function i in
\* the index space of its level, as (lower, upper).
elementSupport_into(b, i) ==
    LET lvl == levelOf(b, i)
        s   == elementSupport(lvl, b.m_xmatrix[lvl + 1][i - b.m_xmatrix_offset[lvl + 1] + 1])
    IN  << s.lo, s.hi >>

RECURSIVE activeInLevel(_, _, _, _)
\* The functions k, k+1, ... of the characteristic matrix of level l whose
\* support holds cell c, as global indices in increasing order.
activeInLevel(b, c, l, k) ==
    IF k >= Len(b.m_xmatrix[l + 1]) THEN <<>>
    ELSE ( IF c \in SupportPoints(l, b.m_xmatrix[l + 1][k + 1])
           THEN << b.m_xmatrix_offset[l + 1] + k >> ELSE <<>> )
         \o activeInLevel(b, c, l, k + 1)

RECURSIVE activeUpTo(_, _, _, _)
\* The functions of levels l, ..., lvl active on cell c.
activeUpTo(b, c, l, lvl) ==
    IF l > lvl THEN <<>>
    ELSE activeInLevel(b, c, l, 0) \o activeUpTo(b, c, l + 1, lvl)

RECURSIVE activeOverLeaves(_, _, _)
\* The active functions collected leaf by leaf over the leaves in `leaves`,
\* from left to right.
activeOverLeaves(b, x, leaves) ==
    IF leaves = {} THEN <<>>
    ELSE LET first == CHOOSE y \in leaves : \A z \in leaves : y.lo <= z.lo
         IN  activeUpTo(b, cellOf(x), 0, first.level)
             \o activeOverLeaves(b, x, leaves \ {first})

\* active_into taking every leaf whose closed box holds the point.
active_into_closedLeaves(b, u) ==
    [p \in 1 .. Len(u) |->
        activeOverLeaves(b, u[p],
            { y \in b.m_tree.leaves : y.lo <= u[p] /\ u[p] <= y.hi })]

\* active_into(u, result): for each point of u the global indices of the
\* functions active at it: the point's leaf gives its level, and the
\* selected functions of the levels up to it whose support holds the point
\* are listed level by level.
active_into(b, u) ==
    [p \in 1 .. Len(u) |->
        activeUpTo(b, cellOf(u[p]), 0, getLevelAtPoint(b, cellOf(u[p])))]

\* Tensor indices a read outside a characteristic matrix may yield.
WildIndex == {Wild} \cup (0 .. (NumFuncs(MaxLvl) - 1))

\* Batches of evaluation points.
MaxBatch == 2
Batches == SeqsUpTo(Coords, MaxBatch) \ {<<>>}

\* A query is made on a constructed, updated object.
CanQuery == pc = "ready" /\ built /\ ops = 0

\* The query `name` with index i (or points u) has ended with outcome
\* pc_, having returned ret (an index or level), supp (an element support)
\* or act (active functions per point).
Queried(name, i, u, pc_, ret, supp, act) ==
    /\ pc' = pc_
    /\ UNCHANGED << m_bases, m_tree, m_xmatrix, m_xmatrix_offset, built >>
    /\ UNCHANGED OtherVars
    /\ ops' = ops + 1
    /\ last' = [op |-> name, box |-> <<>>, i |-> i, u |-> u, ret |-> ret,
                supp |-> supp, act |-> act]

\* levelOf(i): no check of i; the binary search returns for any i.
LevelOf(i) ==
    /\ CanQuery
    /\ Queried("levelOf", i, <<>>, "ready", levelOf(Self, i), <<>>, <<>>)

\* flatTensorIndexOf(i): a read outside the matrices is undefined: the call
\* crashes or returns whatever the read yields.
FlatTensorIndexOf(i) ==
    /\ CanQuery
    /\ IF xmatrixReadInBounds(Self, i)
       THEN Queried("flatTensorIndexOf", i, <<>>, "ready",
                    flatTensorIndexOf(Self, i), <<>>, <<>>)
       ELSE \/ Queried("flatTensorIndexOf", i, <<>>, "aborted", Wild, <<>>, <<>>)
            \/ \E w \in WildIndex :
                  Queried("flatTensorIndexOf", i, <<>>, "ready", w, <<>>, <<>>)

\* elementSupport_into(i, result).
ElementSupport_into(i) ==
    /\ CanQuery
    /\ IF xmatrixReadInBounds(Self, i) /\ basesReadInBounds(Self, i)
       THEN Queried("elementSupport_into", i, <<>>, "ready", 0,
                    elementSupport_into(Self, i), <<>>)
       ELSE \/ Queried("elementSupport_into", i, <<>>, "aborted", 0, <<>>, <<>>)
            \/ \E w \in WildIndex :
                  Queried("elementSupport_into", i, <<>>, "ready", 0,
                          << w, w >>, <<>>)

\* active_into(u, result).
ActiveInto(u) ==
    /\ CanQuery
    /\ Queried("active_into", 0, u, "ready", 0, <<>>, active_into(Self, u))

\* Global indices asked for: the valid ones and the two beyond them.
QueryIdx == IF pc = "ready" /\ built THEN 0 .. (size(Self) + 1) ELSE {}

NextQuery ==
    \/ \E i \in QueryIdx : LevelOf(i)
    \/ \E i \in QueryIdx : FlatTensorIndexOf(i)
    \/ \E i \in QueryIdx : ElementSupport_into(i)
    \/ \E u \in Batches : ActiveInto(u)

SpecQuery == Init /\ [][NextQuery]_vars

\* ------------------------------------------------- the basis for d = 2
\* A degree-Degree2D tensor basis with n elements per direction on the unit
\* square and NumLevels2D level grids. Coordinates are counted in half
\* cells of the finest grid: the domain is [0, 4n] in each direction.
Degree2D == 2
NumLevels2D == 2
MaxElem2D == 1
Dirs == 1 .. 2
\* Elements per direction of level 0: even, so that a quarter and three
\* quarters of the domain are knots of level 1.
Elems2D == { 2 * k : k \in 1 .. MaxElem2D }

\* Cells per direction of level l; functions per direction of level l.
NumCells2D(n, l) == n * Pow2(l)
NumFuncs2D(n, l) == NumCells2D(n, l) + Degree2D
\* Width of a level-l cell in coordinate units and in finest cells.
Width2D(l) == 2 * Pow2(NumLevels2D - 1 - l)
Scale2D(l) == Pow2(NumLevels2D - 1 - l)
Coords2D(n) == 0 .. (4 * n)
FineCells2D(n) == (0 .. (NumCells2D(n, NumLevels2D - 1) - 1))
                  \X (0 .. (NumCells2D(n, NumLevels2D - 1) - 1))

\* Uniquefindspan of the level-l knot vector of a direction.
Uniquefindspan2D(n, l, x) ==
    IF x >= 4 * n THEN NumCells2D(n, l) - 1 ELSE x \div Width2D(l)

\* The tree: the level of every finest cell, the elements per direction
\* of level 0 and the highest level inserted.
Tree2DInit(n) ==
    [n |-> n, lvl |-> [c \in FineCells2D(n) |-> 0], maxInsLevel |-> 0]

\* Finest cell c lies in the box [k1, k2) of level lvl.
InIdxBox2D(c, k1, k2, lvl) ==
    \A j \in Dirs : k1[j] * Scale2D(lvl) <= c[j] /\ c[j] < k2[j] * Scale2D(lvl)

\* gsHDomain::insertBox for d = 2.
TreeInsertBox2D(tree, k1, k2, lvl) ==
    [tree EXCEPT
       !.lvl = [c \in FineCells2D(tree.n) |->
                  IF InIdxBox2D(c, k1, k2, lvl) THEN Max(tree.lvl[c], lvl)
                  ELSE tree.lvl[c]],
       !.maxInsLevel = Max(tree.maxInsLevel, lvl)]

\* gsHDomain::query3 for d = 2.
query3_2D(tree, k1, k2, level) ==
    SetMax({ tree.lvl[c] : c \in { x \in FineCells2D(tree.n) :
                InIdxBox2D(x, k1, k2, level) /\ tree.lvl[x] <= level } })

\* The finest cells of the support of the tensor function (i1, i2) of
\* level l.
SupportCells2D(n, l, ij) ==
    { c \in FineCells2D(n) :
        \A j \in Dirs :
           /\ Max(0, ij[j] - Degree2D) * Scale2D(l) <= c[j]
           /\ c[j] < Min(ij[j] + 1, NumCells2D(n, l)) * Scale2D(l) }

\* The flat tensor index of (i1, i2) in level l, and back.
Flat2D(n, l, ij) == ij[1] + NumFuncs2D(n, l) * ij[2]
Unflat2D(n, l, f) == << f % NumFuncs2D(n, l), f \div NumFuncs2D(n, l) >>

RECURSIVE SortedSeq(_)
\* The numbers of S in increasing order.
SortedSeq(S) ==
    IF S = {} THEN <<>>
    ELSE LET m == CHOOSE x \in S : \A y \in S : x <= y
         IN  << m >> \o SortedSeq(S \ {m})

\* set_activ1 for d = 2: the characteristic matrix of level l.
set_activ1_2D(tree, l) ==
    SortedSeq({ Flat2D(tree.n, l, ij) :
                  ij \in { x \in (0 .. (NumFuncs2D(tree.n, l) - 1))
                                  \X (0 .. (NumFuncs2D(tree.n, l) - 1)) :
                             \A c \in SupportCells2D(tree.n, l, x) :
                                tree.lvl[c] = l } })

\* update_structure for d = 2.
update_structure2D(b) ==
    IF b.pc # "ready" THEN b
    ELSE LET xm == [k \in 1 .. (b.m_tree.maxInsLevel + 1) |->
                      set_activ1_2D(b.m_tree, k - 1)]
         IN  [b EXCEPT !.m_xmatrix = xm,
                       !.m_xmatrix_offset = Offsets(xm, Len(xm))]

\* insert_box for d = 2.
insert_box2D(b, k1, k2, lvl) ==
    IF b.pc # "ready" THEN b
    ELSE IF lvl > b.m_bases - 1 THEN Abort(b)
    ELSE IF ~(\A j \in Dirs : k1[j] < k2[j]
                              /\ k2[j] <= NumCells2D(b.m_tree.n, lvl))
    THEN Abort(b)
    ELSE [b EXCEPT !.m_tree = TreeInsertBox2D(b.m_tree, k1, k2, lvl)]

\* One box with corners lo, hi given in coordinates, as the matrix
\* constructor and refine translate and insert it.
physBoxStep2D(b, lo, hi) ==
    IF b.pc # "ready" THEN b
    ELSE LET n     == b.m_tree.n
             back  == b.m_bases - 1
             level == query3_2D(b.m_tree,
                         [j \in Dirs |-> Uniquefindspan2D(n, back, lo[j])],
                         [j \in Dirs |-> Uniquefindspan2D(n, back, hi[j]) + 1],
                         back)
         IN  IF level + 1 > back THEN Abort(b)
             ELSE update_structure2D(
                    insert_box2D(b,
                       [j \in Dirs |-> Uniquefindspan2D(n, level + 1, lo[j])],
                       [j \in Dirs |-> Uniquefindspan2D(n, level + 1, hi[j]) + 1],
                       level + 1))

\* initialize_class for d = 2: NumLevels2D level grids, the tree of level 0.
initialize_class2D(n) == Basis(NumLevels2D, Tree2DInit(n), <<>>, <<>>, "ready")

\* gsHTensorBasis(tbasis, nlevels) for d = 2.
ctorPlain2D(n) == update_structure2D(initialize_class2D(n))

\* gsHTensorBasis(tbasis, nlevels, boxes) for d = 2 with one box.
ctorMat2D(n, lo, hi) == physBoxStep2D(initialize_class2D(n), lo, hi)

\* refine(boxes) for d = 2 with one box.
refine2D(b, lo, hi) == physBoxStep2D(b, lo, hi)

\* The finest cell holding the point u.
cellOf2D(n, u) ==
    [j \in Dirs |-> Min(u[j] \div 2, NumCells2D(n, NumLevels2D - 1) - 1)]

\* active_into for d = 2 at one point: the selected functions of the levels
\* up to the point's level whose support holds the point, as global indices.
active_into2D(b, u) ==
    LET n == b.m_tree.n
        c == << cellOf2D(n, u)[1], cellOf2D(n, u)[2] >>
    IN  { b.m_xmatrix_offset[l + 1] + k :
            <<l, k>> \in { <<l, k>> \in (0 .. b.m_tree.lvl[c])
                                         \X (0 .. (NumFuncs2D(n, NumLevels2D - 1)
                                                   * NumFuncs2D(n, NumLevels2D - 1) - 1)) :
                             /\ k < Len(b.m_xmatrix[l + 1])
                             /\ c \in SupportCells2D(n, l,
                                        Unflat2D(n, l, b.m_xmatrix[l + 1][k + 1])) } }

\* Coordinate boxes with the lower corner below the upper one.
Boxes2D(n) ==
    { bx \in (Coords2D(n) \X Coords2D(n)) \X (Coords2D(n) \X Coords2D(n)) :
        \A j \in Dirs : bx[1][j] < bx[2][j] }

\* The object before construction, for a tensor basis with n elements per
\* direction.
Init2D ==
    \E n \in Elems2D :
       /\ m_bases = 0
       /\ m_tree = Tree2DInit(n)
       /\ m_xmatrix = <<>>
       /\ m_xmatrix_offset = <<>>
       /\ pc = "new"
       /\ ops = 0
       /\ built = FALSE
       /\ last = [op |-> "none", box |-> <<>>, by |-> "none",
                  lo |-> <<0, 0>>, hi |-> <<0, 0>>, u |-> <<0, 0>>, act |-> {}]
       /\ Idle

\* The call `name` with box [lo, hi] has made the object b.
Done2D(name, b, lo, hi) ==
    /\ Becomes(b)
    /\ built' = (b.pc = "ready")
    /\ ops' = ops + 1
    /\ last' = [op |-> name, box |-> <<>>, by |-> name, lo |-> lo, hi |-> hi,
                u |-> <<0, 0>>, act |-> {}]

NewPlain2D ==
    /\ pc = "new"
    /\ Done2D("ctorPlain", ctorPlain2D(m_tree.n), <<0, 0>>, <<0, 0>>)

NewMat2D ==
    /\ pc = "new"
    /\ \E bx \in Boxes2D(m_tree.n) :
          Done2D("ctorMat", ctorMat2D(m_tree.n, bx[1], bx[2]), bx[1], bx[2])

Refine2D ==
    /\ pc = "ready" /\ last.op = "ctorPlain"
    /\ \E bx \in Boxes2D(m_tree.n) :
          Done2D("refine", refine2D(Self, bx[1], bx[2]), bx[1], bx[2])

\* active_into at a point whose coordinates are multiples of a quarter of
\* the domain.
ActiveInto2D ==
    /\ pc = "ready" /\ last.op \in {"ctorMat", "refine"}
    /\ \E u \in { x \in Coords2D(m_tree.n) \X Coords2D(m_tree.n) :
                    \A j \in Dirs : x[j] % m_tree.n = 0 } :
          /\ UNCHANGED << m_bases, m_tree, m_xmatrix, m_xmatrix_offset, pc, built >>
          /\ UNCHANGED OtherVars
          /\ ops' = ops + 1
          /\ last' = [last EXCEPT !.op = "active_into", !.u = u,
                                  !.act = active_into2D(Self, u)]

Next2D == NewPlain2D \/ NewMat2D \/ Refine2D \/ ActiveInto2D

Spec2D == Init2D /\ [][Next2D]_vars

\* ------------------------------------------- refinement with coefficients
\* transfer(old, result): the matrix taking coefficient vectors of the
\* basis with characteristic matrices `old` to this basis, by its shape:
\* a row for every function of this basis, a column for every old one.
transfer(b, old) == [rows |-> size(b), cols |-> SumLen(old, Len(old))]

\* The coefficient matrix (by its number of rows) multiplied from the left
\* by the transfer matrix t; the product asserts matching dimensions.
Transferred(r, t) ==
    IF r.b.pc # "ready" THEN r
    ELSE IF t.cols # r.coefs THEN [r EXCEPT !.b = Abort(r.b)]
    ELSE [r EXCEPT !.coefs = t.rows]

\* refine_withCoefs leaving the coefficients as they are.
refine_withCoefs_keepCoefs(b, coefs, boxes) ==
    [b |-> refine(b, boxes), coefs |-> coefs]

\* refine_withCoefs(coefs, boxes): refine, then coefs = transfer * coefs.
refine_withCoefs(b, coefs, boxes) ==
    Transferred([b |-> refine(b, boxes), coefs |-> coefs],
                transfer(refine(b, boxes), b.m_xmatrix))

\* refineElements_withCoefs(coefs, boxes).
refineElements_withCoefs(b, coefs, boxes) ==
    Transferred([b |-> refineElements(b, boxes), coefs |-> coefs],
                transfer(refineElements(b, boxes), b.m_xmatrix))

\* uniformRefine_withCoefs(coefs).
uniformRefine_withCoefs(b, coefs) ==
    Transferred([b |-> uniformRefine(b), coefs |-> coefs],
                transfer(uniformRefine(b), b.m_xmatrix))

\* The call `name` with argument arg on a coefficient matrix of size()
\* rows has given r.
WithCoefs(name, arg, r) ==
    /\ Becomes(r.b)
    /\ built' = (built \/ r.b.pc = "ready")
    /\ ops' = ops + 1
    /\ last' = [op |-> name, box |-> <<>>, arg |-> arg, before |-> size(Self),
                coefs |-> r.coefs]

RefineWithCoefs ==
    /\ CanQuery
    /\ \E pb \in PhysBoxes :
          WithCoefs("refine_withCoefs", pb,
                    refine_withCoefs(Self, size(Self), MatOf(<<pb>>)))

RefineElementsWithCoefs ==
    /\ CanQuery
    /\ \E box \in IdxBoxes :
          WithCoefs("refineElements_withCoefs", box,
                    refineElements_withCoefs(Self, size(Self), FlatOf(<<box>>)))

UniformRefineWithCoefs ==
    /\ CanQuery
    /\ maxLevel(Self) < MaxLvl
    /\ WithCoefs("uniformRefine_withCoefs", <<>>,
                 uniformRefine_withCoefs(Self, size(Self)))

NextCoefs == RefineWithCoefs \/ RefineElementsWithCoefs \/ UniformRefineWithCoefs

SpecCoefs == Init /\ [][NextCoefs]_vars

\* ------------------------------------------------------ copy construction
\* The copy constructor with m_tree referring to the tree of o.
copyCtor_sharedTree(o) ==
    [obj |-> Basis(o.m_bases, o.m_tree, o.m_xmatrix, o.m_xmatrix_offset, o.pc),
     shares |-> {"m_tree"}]

\* gsHTensorBasis(const gsHTensorBasis & o): the offsets, the tree and the
\* characteristic matrices are assigned by value and every per-level basis
\* is cloned, so the new object shares no storage with o.
copyCtor(o) ==
    [obj |-> Basis(o.m_bases, o.m_tree, o.m_xmatrix, o.m_xmatrix_offset, o.pc),
     shares |-> {}]

\* Object a as it reads once the object it shares the fields `shares`
\* with has become b.
Aliased(a, b, shares) ==
    [a EXCEPT !.m_tree = IF "m_tree" \in shares THEN b.m_tree ELSE @]

\* The calls made on one of the two objects: refineElements, refine and
\* needLevel (through tensorLevel).
CopyOps(b) ==
    { [op |-> "refineElements", b |-> refineElements(b, FlatOf(<<box>>))] :
         box \in IdxBoxes }
    \cup { [op |-> "refine", b |-> refine(b, MatOf(<<pb>>))] : pb \in PhysBoxes }
    \cup { [op |-> "needLevel", b |-> tensorLevel(b, i)] : i \in Levels }

Copy ==
    /\ pc = "ready" /\ ops = 0 /\ orig = NoObject
    /\ UNCHANGED << repo, kv, cdr >>
    /\ orig' = [obj |-> Self, shares |-> copyCtor(Self).shares]
    /\ Assigned(copyCtor(Self).obj)
    /\ UNCHANGED << ops, built >>
    /\ last' = [op |-> "copy", box |-> <<>>, on |-> "copy"]

\* A call on the copy.
OnCopy ==
    /\ CanCall /\ orig # NoObject
    /\ UNCHANGED << repo, kv, cdr >>
    /\ \E c \in CopyOps(Self) :
          /\ Assigned(c.b)
          /\ orig' = [orig EXCEPT !.obj = Aliased(@, c.b, orig.shares)]
          /\ built' = (built \/ c.b.pc = "ready")
          /\ last' = [op |-> c.op, box |-> <<>>, on |-> "copy"]
    /\ ops' = ops + 1

\* A call on the object the copy was made from.
OnOriginal ==
    /\ CanCall /\ orig # NoObject
    /\ UNCHANGED << repo, kv, cdr >>
    /\ \E c \in CopyOps(orig.obj) :
          /\ orig' = [orig EXCEPT !.obj = c.b]
          /\ Assigned(Aliased(Self, c.b, orig.shares))
          /\ last' = [op |-> c.op, box |-> <<>>, on |-> "original"]
    /\ UNCHANGED built
    /\ ops' = ops + 1

NextCopy == Copy \/ OnCopy \/ OnOriginal

SpecCopy == Init /\ [][NextCopy]_vars

\* ------------------------------------------------------------ gsFileRepo
\* Strings are sequences of characters. GISMO_PATH_SEPERATOR; the character
\* a std::string yields at index size().
GISMO_PATH_SEPERATOR == "/"
NUL == "NUL"
charAt(str, k) == IF k < Len(str) THEN str[k + 1] ELSE NUL

\* fileExists(name): a stream on the file can be opened.
fileExists(files, name) == name \in files

RECURSIVE registerPaths(_, _)
\* registerPaths(paths): the pieces of `paths` between semicolons, the empty
\* ones left out, each ended with a separator, are appended to m_paths.
registerPaths(m_paths, paths) ==
    LET n  == CHOOSE k \in 0 .. Len(paths) :
                 /\ k = Len(paths) \/ paths[k + 1] = ";"
                 /\ \A j \in 1 .. k : paths[j] # ";"
        p  == SubSeq(paths, 1, n)
        m2 == IF p # <<>>
              THEN Append(m_paths, IF p[Len(p)] # GISMO_PATH_SEPERATOR
                                   THEN Append(p, GISMO_PATH_SEPERATOR) ELSE p)
              ELSE m_paths
    IN  IF n = Len(paths) THEN m2
        ELSE registerPaths(m2, SubSeq(paths, n + 2, Len(paths)))

RECURSIVE findIn(_, _, _, _)
\* The loop of find over m_paths from position k on.
findIn(m_paths, k, files, fn) ==
    IF ~(k < Len(m_paths)) THEN [ret |-> FALSE, fn |-> fn]
    ELSE LET tmp == m_paths[k + 1] \o fn
         IN  IF fileExists(files, tmp) THEN [ret |-> TRUE, fn |-> tmp]
             ELSE findIn(m_paths, k + 1, files, fn)

\* find without the test for fully qualified names.
find_searchAll(m_paths, files, fn) == findIn(m_paths, 0, files, fn)

\* find(fn): the value returned and fn after the call.
find(m_paths, files, fn) ==
    IF \/ charAt(fn, 0) = GISMO_PATH_SEPERATOR
       \/ ( charAt(fn, 0) = "." /\ charAt(fn, 1) = GISMO_PATH_SEPERATOR )
       \/ ( charAt(fn, 0) = "." /\ charAt(fn, 1) = "."
            /\ charAt(fn, 2) = GISMO_PATH_SEPERATOR )
    THEN [ret |-> fileExists(files, fn), fn |-> fn]
    ELSE findIn(m_paths, 0, files, fn)

\* Path lists registered at construction and later; file names asked for;
\* files that may exist.
MaxPathLen == 3
MaxFnLen == 4
PathInputs == SeqsUpTo({"a", "/", ";"}, MaxPathLen)
MorePathInputs == SeqsUpTo({"a", "/", ";"}, MaxPathLen - 1) \ {<<>>}
FnInputs == SeqsUpTo({"a", "/", "."}, MaxFnLen)
FileNames == { <<"/", "a">>, <<".", "/", "a">>, <<".", ".", "/", "a">>,
               <<"a", "/", "a">>, <<"a", "/", ".", "a">> }

\* gsFileRepo(): registers the default paths.
InitRepo ==
    /\ NoBasis /\ orig = NoObject /\ kv = NoKv /\ cdr = NoCdr
    /\ \E paths \in PathInputs, files \in SUBSET FileNames :
          repo = [m_paths |-> registerPaths(<<>>, paths), files |-> files,
                  arg |-> <<>>, fn |-> <<>>, ret |-> "none"]

RegisterPaths ==
    /\ repo.ret = "none" /\ Len(repo.m_paths) < 2
    /\ \E paths \in MorePathInputs :
          repo' = [repo EXCEPT !.m_paths = registerPaths(@, paths)]
    /\ UNCHANGED << BasisVars, orig, kv, cdr >>

Find ==
    /\ repo.ret = "none"
    /\ \E fn \in FnInputs :
          repo' = [repo EXCEPT
                     !.arg = fn,
                     !.fn = find(repo.m_paths, repo.files, fn).fn,
                     !.ret = IF find(repo.m_paths, repo.files, fn).ret
                             THEN "true" ELSE "false"]
    /\ UNCHANGED << BasisVars, orig, kv, cdr >>

NextRepo == RegisterPaths \/ Find

SpecRepo == InitRepo /\ [][NextRepo]_vars

\* ------------------------------------------ _differenceBetweenKnotVectors
\* A compact knot vector is the sequence of its unique knots, each with its
\* multiplicity; indices count from 0. A read past the end yields Wild.
uValue(v, i) == IF i < Len(v) THEN v[i + 1].u ELSE Wild
u_multiplicityIndex(v, i) == IF i < Len(v) THEN v[i + 1].m ELSE Wild

RECURSIVE push_back(_, _, _)
\* n times knots.push_back(x).
push_back(knots, x, n) ==
    IF n <= 0 THEN knots ELSE push_back(Append(knots, x), x, n - 1)

\* One iteration of the loop with c_index advanced in both branches.
diffStep_advanceBoth(k) ==
    LET f_knot       == uValue(k.fkv, k.f_index)
        c_knot       == uValue(k.ckv, k.c_index)
        f_knot_mltpl == u_multiplicityIndex(k.fkv, k.f_index)
        c_knot_mltpl == u_multiplicityIndex(k.ckv, k.c_index)
    IN  [k EXCEPT
           !.knots = IF f_knot = c_knot
                     THEN push_back(@, f_knot, f_knot_mltpl - c_knot_mltpl)
                     ELSE push_back(@, f_knot, f_knot_mltpl),
           !.f_index = @ + 1,
           !.c_index = @ + 1,
           !.iters = @ + 1,
           !.read = Max(@, k.c_index)]

\* One iteration of the loop of _differenceBetweenKnotVectors; iters counts
\* the iterations and read is the highest index at which ckv was read.
diffStep(k) ==
    LET f_knot       == uValue(k.fkv, k.f_index)
        c_knot       == uValue(k.ckv, k.c_index)
        f_knot_mltpl == u_multiplicityIndex(k.fkv, k.f_index)
        c_knot_mltpl == u_multiplicityIndex(k.ckv, k.c_index)
    IN  [k EXCEPT
           !.knots = IF f_knot = c_knot
                     THEN push_back(@, f_knot, f_knot_mltpl - c_knot_mltpl)
                     ELSE push_back(@, f_knot, f_knot_mltpl),
           !.f_index = @ + 1,
           !.c_index = IF f_knot = c_knot THEN @ + 1 ELSE @,
           !.iters = @ + 1,
           !.read = Max(@, k.c_index)]

\* Knot vectors with up to MaxKnots unique knots 1, 2, ... of multiplicity
\* up to MaxMult, and the coarse vectors nested in a fine one.
MaxKnots == 4
MaxMult == 2
FineKnots ==
    UNION { [1 .. n -> 1 .. MaxMult] : n \in 1 .. MaxKnots }
KnotVector(values, mult) ==
    [i \in 1 .. Cardinality(values) |->
        [u |-> CHOOSE x \in values : Cardinality({ y \in values : y < x }) = i - 1,
         m |-> mult[i]]]

\* The call with nested knot vectors and index ranges over one interval.
InitKv ==
    /\ NoBasis /\ orig = NoObject /\ repo = NoRepo /\ cdr = NoCdr
    /\ \E fm \in FineKnots :
          \E values \in SUBSET (1 .. Len(fm)) \ {{}} :
             \E cm \in [1 .. Cardinality(values) -> 1 .. MaxMult] :
                \E cl, ch \in 0 .. (Cardinality(values) - 1) :
                   /\ cl <= ch
                   /\ kv = [at |-> "loop",
                            ckv |-> KnotVector(values, cm),
                            fkv |-> KnotVector(1 .. Len(fm), fm),
                            c_low |-> cl, c_high |-> ch,
                            f_low |-> KnotVector(values, cm)[cl + 1].u - 1,
                            f_high |-> KnotVector(values, cm)[ch + 1].u - 1,
                            c_index |-> cl,
                            f_index |-> KnotVector(values, cm)[cl + 1].u - 1,
                            knots |-> <<>>, iters |-> 0, read |-> cl]

\* while (f_index <= f_high): one iteration, or the end of the loop.
DiffStep ==
    /\ kv.at = "loop"
    /\ kv' = IF kv.f_index <= kv.f_high THEN diffStep(kv)
             ELSE [kv EXCEPT !.at = "done"]
    /\ UNCHANGED << BasisVars, orig, repo, cdr >>

NextKv == DiffStep

SpecKv == InitKv /\ [][NextKv]_vars

\* ------------------------------------------------ gsCDRAssembler::assemble
\* The call made next is appended to the log and the call moves on.
Called(c, name, next) == [c EXCEPT !.log = Append(@, name), !.at = next]

\* assemble() with the interface terms of the dg strategy pushed.
assembleStep_pushDg(c) ==
    CASE c.at = "assert" ->
           IF c.initialized THEN [c EXCEPT !.at = "reserve"]
           ELSE [c EXCEPT !.at = "aborted"]
      [] c.at = "reserve" -> Called(c, "reserve", "dirichletDofs")
      [] c.at = "dirichletDofs" -> Called(c, "computeDirichletDofs", "numDofs")
      [] c.at = "numDofs" ->
           IF 0 = c.numDofs THEN Called(c, "gsWarn", "returned")
           ELSE [c EXCEPT !.at = "volume"]
      [] c.at = "volume" -> Called(c, "gsVisitorCDR", "neumann")
      [] c.at = "neumann" -> Called(c, "gsVisitorNeumann", "dirichlet")
      [] c.at = "dirichlet" ->
           IF c.DirichletStrategy = "nitsche"
           THEN Called(c, "gsVisitorNitsche", "interface")
           ELSE IF c.DirichletStrategy = "penalize"
                THEN Called(c, "penalizeDirichletDofs", "interface")
                ELSE [c EXCEPT !.at = "interface"]
      [] c.at = "interface" ->
           IF c.InterfaceStrategy = "dg"
           THEN Called(c, "gsVisitorDg", "finalize")
           ELSE [c EXCEPT !.at = "finalize"]
      [] c.at = "finalize" -> Called(c, "finalize", "returned")

\* One statement of assemble(): the assertion on the sparse system, the
\* reservation, computeDirichletDofs, the test of numDofs, the volume and
\* Neumann visitors, the Dirichlet strategy, the interface strategy (dg is
\* only warned about) and finalize.
assembleStep(c) ==
    CASE c.at = "assert" ->
           IF c.initialized THEN [c EXCEPT !.at = "reserve"]
           ELSE [c EXCEPT !.at = "aborted"]
      [] c.at = "reserve" -> Called(c, "reserve", "dirichletDofs")
      [] c.at = "dirichletDofs" -> Called(c, "computeDirichletDofs", "numDofs")
      [] c.at = "numDofs" ->
           IF 0 = c.numDofs THEN Called(c, "gsWarn", "returned")
           ELSE [c EXCEPT !.at = "volume"]
      [] c.at = "volume" -> Called(c, "gsVisitorCDR", "neumann")
      [] c.at = "neumann" -> Called(c, "gsVisitorNeumann", "dirichlet")
      [] c.at = "dirichlet" ->
           IF c.DirichletStrategy = "nitsche"
           THEN Called(c, "gsVisitorNitsche", "interface")
           ELSE IF c.DirichletStrategy = "penalize"
                THEN Called(c, "penalizeDirichletDofs", "interface")
                ELSE [c EXCEPT !.at = "interface"]
      [] c.at = "interface" ->
           IF c.InterfaceStrategy = "dg"
           THEN Called(c, "gsWarn", "finalize")
           ELSE [c EXCEPT !.at = "finalize"]
      [] c.at = "finalize" -> Called(c, "finalize", "returned")

\* The options and the state of the system assemble() may be called in.
MaxDofs == 2
DirichletStrategies == {"elimination", "penalize", "nitsche", "none"}
InterfaceStrategies == {"glue", "dg", "conforming", "none"}

InitCdr ==
    /\ NoBasis /\ orig = NoObject /\ repo = NoRepo /\ kv = NoKv
    /\ \E i \in BOOLEAN, n \in 0 .. MaxDofs,
          ds \in DirichletStrategies, is \in InterfaceStrategies :
          cdr = [at |-> "assert", initialized |-> i, numDofs |-> n,
                 DirichletStrategy |-> ds, InterfaceStrategy |-> is,
                 log |-> <<>>]

AssembleStep ==
    /\ cdr.at \notin {"none", "aborted", "returned"}
    /\ cdr' = assembleStep(cdr)
    /\ UNCHANGED << BasisVars, orig, repo, kv >>

NextCdr == AssembleStep

SpecCdr == InitCdr /\ [][NextCdr]_vars

\* ================================================================ claims
\* update_structure has run on the object and the object is usable.
Updated == pc = "ready" /\ built

\* The tensor indices selected at level l.
Sel(l) ==
    { At0(At0(m_xmatrix, l), k) : k \in 0 .. (Len(At0(m_xmatrix, l)) - 1) }

\* The level the tree assigns to point c.
lvlAt(c) == getLevelAtPoint(Self, c)

\* The selected functions as (level, tensor index) pairs.
Selected ==
    { <<l, j>> \in (0 .. (Len(m_xmatrix) - 1)) \X (0 .. (NumFuncs(MaxLvl) - 1)) :
        j \in Sel(l) }

\* Point c lies in the index box (level, lower, upper).
InBox(c, box) ==
    box[2] * Scale(box[1]) <= c /\ c < box[3] * Scale(box[1])

\* The last call inserted an index box and returned normally.
Inserted ==
    /\ pc = "ready"
    /\ last.op \in {"refine", "refineElements"}
    /\ last.box # <<>>

\* C1: after update_structure, a tensor index j of level l is in the
\* characteristic matrix of level l exactly if every point of the support
\* of function j is tagged with level l by the tree.
C1_SelectionRule ==
    Updated =>
      /\ Len(m_xmatrix) = maxLevel(Self) + 1
      /\ \A l \in 0 .. maxLevel(Self) :
           \A j \in 0 .. (NumFuncs(l) - 1) :
              (j \in Sel(l)) <=> (\A c \in SupportPoints(l, j) : lvlAt(c) = l)

\* A flat-vector construction with three levels present, a selected
\* function, a function rejected for a finer part of its support and one
\* rejected for a coarser part.
C1_Witness ==
    /\ Updated
    /\ last.op = "ctorVec"
    /\ maxLevel(Self) = MaxLvl
    /\ \E l \in 1 .. (MaxLvl - 1) :
         /\ Sel(l) # {}
         /\ \E j \in 0 .. (NumFuncs(l) - 1) :
              /\ j \notin Sel(l)
              /\ \E c \in SupportPoints(l, j) : lvlAt(c) = l
              /\ \E c \in SupportPoints(l, j) : lvlAt(c) > l
         /\ \E j \in 0 .. (NumFuncs(l) - 1) :
              /\ j \notin Sel(l)
              /\ \E c \in SupportPoints(l, j) : lvlAt(c) = l
              /\ \E c \in SupportPoints(l, j) : lvlAt(c) < l

\* C2 (as claimed): a tensor index never appears in the characteristic
\* matrices of two different levels.
C2_IndexInOneLevel ==
    Updated =>
      \A k \in 0 .. (Len(m_xmatrix) - 1) :
         \A l \in 0 .. (Len(m_xmatrix) - 1) :
            k # l => Sel(k) \cap Sel(l) = {}

\* C2 (amended): no two functions selected from two different levels have
\* the same support; the flat index alone may repeat across levels.
C2_NoSupportInTwoLevels ==
    Updated =>
      \A f \in Selected :
         \A g \in Selected :
            f[1] # g[1] => SupportPoints(f[1], f[2]) # SupportPoints(g[1], g[2])

\* One flat index selected at two levels.
C2_Witness ==
    /\ Updated
    /\ \E k \in 0 .. (Len(m_xmatrix) - 1) :
         \E l \in 0 .. (Len(m_xmatrix) - 1) :
            k # l /\ Sel(k) \cap Sel(l) # {}

\* C3: after update_structure, every point of the domain lies in the
\* support of a selected function, and every selected function whose
\* support holds the point is of the point's level or a coarser one.
C3_Coverage ==
    Updated =>
      \A c \in Points :
         /\ \E f \in Selected : c \in SupportPoints(f[1], f[2])
         /\ \A f \in Selected :
              c \in SupportPoints(f[1], f[2]) => f[1] <= lvlAt(c)

\* C4: after update_structure, the offset table is the prefix sum of the
\* characteristic-matrix sizes, starts at 0, is non-decreasing, and size()
\* is its entry maxLevel+1, the number of selected functions.
C4_OffsetsPrefixSum ==
    Updated =>
      /\ Len(m_xmatrix) = maxLevel(Self) + 1
      /\ Len(m_xmatrix_offset) = maxLevel(Self) + 2
      /\ \A l \in 0 .. (maxLevel(Self) + 1) :
           At0(m_xmatrix_offset, l) = SumLen(m_xmatrix, l)
      /\ \A l \in 0 .. maxLevel(Self) :
           At0(m_xmatrix_offset, l) <= At0(m_xmatrix_offset, l + 1)
      /\ At0(m_xmatrix_offset, 0) = 0
      /\ size(Self) = At0(m_xmatrix_offset, maxLevel(Self) + 1)
      /\ size(Self) = Cardinality(Selected)

\* An explicit-levels construction with functions at the coarsest and the
\* finest level.
C4_Witness ==
    /\ Updated
    /\ last.op = "ctorLvl"
    /\ maxLevel(Self) = MaxLvl
    /\ Sel(0) # {}
    /\ Sel(MaxLvl) # {}
    /\ size(Self) > Cardinality(Sel(0))

\* C5: for every global index i < size(), levelOf(i) is the one level l
\* with offsets[l] <= i < offsets[l+1], and its matrix is not empty.
C5_LevelOf ==
    Updated =>
      \A i \in 0 .. (size(Self) - 1) :
         LET l == levelOf(Self, i)
         IN  /\ 0 <= l /\ l <= maxLevel(Self)
             /\ At0(m_xmatrix_offset, l) <= i
             /\ i < At0(m_xmatrix_offset, l + 1)
             /\ \A k \in 0 .. maxLevel(Self) :
                  ( At0(m_xmatrix_offset, k) <= i
                    /\ i < At0(m_xmatrix_offset, k + 1) ) => k = l
             /\ Len(At0(m_xmatrix, l)) > 0

\* Functions at a level above an empty level, and an empty coarsest level.
C5_Witness ==
    /\ Updated
    /\ maxLevel(Self) = MaxLvl
    /\ Sel(0) = {}
    /\ \E k \in 1 .. (MaxLvl - 1) :
         /\ Sel(k) = {}
         /\ \E i \in 0 .. (size(Self) - 1) : levelOf(Self, i) > k

\* C6: for every global index i < size(), with l = levelOf(i) and
\* t = flatTensorIndexOf(i) = flatTensorIndexOf(i, l) = m_xmatrix[l][i -
\* offsets[l]], flatTensorIndexToHierachicalIndex(t, l) = i; and the result
\* is -1 for every (l, t) with t not in m_xmatrix[l].
C6_RoundTrip ==
    Updated =>
      /\ \A i \in 0 .. (size(Self) - 1) :
           LET l == levelOf(Self, i)
               t == flatTensorIndexOf(Self, i)
           IN  /\ t = flatTensorIndexOf2(Self, i, l)
               /\ t = m_xmatrix[l + 1][i - m_xmatrix_offset[l + 1] + 1]
               /\ flatTensorIndexToHierachicalIndex(Self, t, l) = i
      /\ \A l \in Levels :
           \A t \in 0 .. (NumFuncs(l) - 1) :
              ( l > maxLevel(Self) \/ t \notin Sel(l) ) =>
                 flatTensorIndexToHierachicalIndex(Self, t, l) = 0 - 1

\* Global indices in two levels, the finer one with a positive offset, and
\* a tensor index that is not selected.
C6_Witness ==
    /\ Updated
    /\ maxLevel(Self) >= 1
    /\ \E i \in 0 .. (size(Self) - 1) :
         /\ levelOf(Self, i) >= 1
         /\ At0(m_xmatrix_offset, levelOf(Self, i)) > 0
         /\ flatTensorIndexOf(Self, i) # i
    /\ \E t \in 0 .. (NumFuncs(0) - 1) : t \notin Sel(0)

\* C7: size() after a refine or refineElements call is at least size()
\* before the call.
C7_SizeMonotone ==
    [][ ( built /\ Inserted' ) => size(Self)' >= size(Self) ]_vars

\* C8: maxLevel() never decreases, and after inserting a box at level L it
\* is at least L.
C8_MaxLevelMonotone ==
    [][ /\ maxLevel(Self)' >= maxLevel(Self)
        /\ Inserted' => maxLevel(Self)' >= last'.box[1] ]_vars

\* A box inserted at the finest level, above the level the tree had, after
\* which maxLevel() is that level.
C8_Witness ==
    /\ Inserted
    /\ last.box[1] = MaxLvl
    /\ maxLevel(Self) = MaxLvl
    /\ \E c \in Points : lvlAt(c) = 0

\* C9: inserting a box leaves the level of every point outside the box
\* unchanged.
C9_Frame ==
    [][ Inserted' =>
          \A c \in Points :
             ~InBox(c, last'.box) => lvlAt(c)' = lvlAt(c) ]_vars

\* A refine call after which a point outside its box still has a level
\* above 0 and a point inside has the box's level.
C9_Witness ==
    /\ Inserted
    /\ last.op = "refine"
    /\ \E c \in Points : ~InBox(c, last.box) /\ lvlAt(c) > 0
    /\ \E c \in Points : InBox(c, last.box) /\ lvlAt(c) = last.box[1]

\* C10: the level of a point never decreases; inserting a box at level L
\* raises the points of the box tagged coarser than L to L and leaves the
\* points tagged finer than L at their level.
C10_LevelsMonotone ==
    [][ \A c \in Points :
          /\ lvlAt(c)' >= lvlAt(c)
          /\ ( Inserted' /\ InBox(c, last'.box) ) =>
                lvlAt(c)' = Max(lvlAt(c), last'.box[1]) ]_vars

\* A box inserted at level 1 that holds a point of level 1 and a point
\* left at the finer level 2.
C10_Witness ==
    /\ Inserted
    /\ last.box[1] = 1
    /\ \E c \in Points : InBox(c, last.box) /\ lvlAt(c) = 1
    /\ \E c \in Points : InBox(c, last.box) /\ lvlAt(c) = MaxLvl

\* C11: in every reachable tree state the leaves partition the index
\* domain: every leaf is a non-empty closed-open box inside the domain and
\* every point is governed by exactly one leaf, so getLevelAtPoint is total
\* and single-valued.
C11_LeavesPartition ==
    /\ \A leaf \in m_tree.leaves :
         0 <= leaf.lo /\ leaf.lo < leaf.hi /\ leaf.hi <= NumFine
    /\ \A c \in Points : Cardinality(LeavesAt(m_tree, c)) = 1
    /\ \A c \in Points : lvlAt(c) \in 0 .. maxLevel(Self)

\* A tree after the insertion of a box that met the pieces of an earlier
\* box: four or more leaves at three levels.
C11_Witness ==
    /\ Inserted
    /\ Cardinality(m_tree.leaves) >= 4
    /\ { leaf.level : leaf \in m_tree.leaves } = Levels
    /\ \E leaf \in m_tree.leaves :
         /\ leaf.level = last.box[1]
         /\ leaf.hi - leaf.lo < (last.box[3] - last.box[2]) * Scale(last.box[1])

\* The step inserts, by refineElements, the box the previous call inserted.
SameBoxAgain ==
    /\ Inserted /\ last.op = "refineElements"
    /\ Inserted' /\ last'.op = "refineElements"
    /\ last'.box = last.box

\* C12: inserting the identical box at the same level a second time leaves
\* the level of every point, every characteristic matrix, the offset table
\* and size() as they were after the first insertion.
C12_ReinsertionIdempotent ==
    [][ SameBoxAgain =>
          /\ \A c \in Points : lvlAt(c)' = lvlAt(c)
          /\ m_tree' = m_tree
          /\ m_xmatrix' = m_xmatrix
          /\ m_xmatrix_offset' = m_xmatrix_offset
          /\ size(Self)' = size(Self) ]_vars

\* The second of two identical insertions has returned, the box having
\* split a coarser leaf and met a finer one the first time.
C12_Witness ==
    /\ Inserted
    /\ last.op = "refineElements"
    /\ ops = MaxOps + 1
    /\ last.box[1] = 1
    /\ \E c \in Points : InBox(c, last.box) /\ lvlAt(c) = 1
    /\ \E c \in Points : InBox(c, last.box) /\ lvlAt(c) = MaxLvl
    /\ \E c \in Points : ~InBox(c, last.box) /\ lvlAt(c) = 0

\* C13: needLevel(n) leaves the per-level bases unchanged if level n
\* exists and otherwise extends them so that level n exists; the number of
\* per-level bases never decreases under needLevel, refine, refineElements
\* or uniformRefine.
C13_NeedLevelMonotone ==
    [][ /\ m_bases' >= m_bases
        /\ last'.op = "tensorLevel" =>
             /\ last'.lvl <= m_bases - 1 => m_bases' = m_bases
             /\ last'.lvl > m_bases - 1 => m_bases' - 1 >= last'.lvl ]_vars

\* A level query for a level below the finest instantiated one has
\* returned: all levels are still there.
C13_Witness ==
    /\ pc = "ready"
    /\ last.op = "tensorLevel"
    /\ last.lvl < m_bases - 1
    /\ last.lvl >= 1

\* C14: a level query (tensorLevel(i), numKnots(i, k), knot(i, k, j)) for a
\* level beyond those instantiated never fails: it extends the per-level
\* bases and leaves the tree, every characteristic matrix, the offset
\* table, size() and maxLevel() unchanged.
C14_LazyLevelQuery ==
    [][ last'.op = "tensorLevel" =>
          /\ pc' = "ready"
          /\ m_bases' - 1 >= last'.lvl
          /\ m_tree' = m_tree
          /\ m_xmatrix' = m_xmatrix
          /\ m_xmatrix_offset' = m_xmatrix_offset
          /\ maxLevel(Self)' = maxLevel(Self)
          /\ built => size(Self)' = size(Self) ]_vars

\* A query for the finest level on a built basis whose tree stops below
\* it: the per-level bases reach beyond the tree's levels.
C14_Witness ==
    /\ Updated
    /\ last.op = "tensorLevel"
    /\ last.lvl = MaxLvl
    /\ m_bases = MaxLvl + 1
    /\ maxLevel(Self) < MaxLvl
    /\ Len(m_xmatrix) = maxLevel(Self) + 1
    /\ size(Self) > 0

\* The levels the tree assigns to the points of an index box.
BoxLevels(box) == { lvlAt(c) : c \in { p \in Points : InBox(p, box) } }

IsCtor == last.op \in {"ctorPlain", "ctorVec", "ctorMat", "ctorLvl"}

\* Box i (from 0) of a flat vector, and the number of whole boxes in it.
VecBox(v, i) ==
    << At0(v, (2 * d + 1) * i), At0(v, (2 * d + 1) * i + 1),
       At0(v, (2 * d + 1) * i + d + 1) >>
NumVecBoxes(v) == Len(v) \div (2 * d + 1)

\* Box i (from 0) of a coordinate matrix, and the number of boxes in it.
MatBox(m, i) == << MatAt(m, 0, 2 * i), MatAt(m, 0, 2 * i + 1) >>
NumMatBoxes(m) == MatCols(m) \div 2

\* The flat-vector constructor was given whole boxes and a positive level
\* count.
VecCall ==
    /\ last.op = "ctorVec"
    /\ last.nlevels > 0
    /\ Len(last.vec) % (2 * d + 1) = 0

\* C15: the state the flat-vector constructor leaves, with one
\* update_structure() after all insertions, is the state reached by
\* inserting the same boxes in the same order with update_structure() after
\* each one; the rebuilt structure is a function of the tree and the
\* per-level bases only.
C15_BatchedRebuild ==
    /\ ( last.op = "ctorVec" /\ last.nlevels > 0 ) =>
          LET one == refineElements(ctorPlain(last.nb, last.nlevels),
                                    last.vec)
          IN  /\ pc = one.pc
              /\ pc = "ready" =>
                   /\ m_tree = one.m_tree
                   /\ m_bases = one.m_bases
                   /\ m_xmatrix = one.m_xmatrix
                   /\ m_xmatrix_offset = one.m_xmatrix_offset
                   /\ size(Self) = size(one)
    /\ ( IsCtor /\ Updated ) =>
          /\ update_structure(Self) = Self
          /\ update_structure(
               [Self EXCEPT !.m_xmatrix = <<>>, !.m_xmatrix_offset = <<>>])
             = Self

\* The flat-vector constructor was given a level-2 box and then a level-1
\* box that overlaps it, and has returned a basis with all three levels.
C15_Witness ==
    /\ VecCall
    /\ pc = "ready"
    /\ NumVecBoxes(last.vec) = 2
    /\ VecBox(last.vec, 0)[1] = MaxLvl
    /\ VecBox(last.vec, 1)[1] = 1
    /\ \E c \in Points :
         InBox(c, VecBox(last.vec, 0)) /\ InBox(c, VecBox(last.vec, 1))
    /\ { leaf.level : leaf \in m_tree.leaves } = Levels
    /\ Sel(1) # {}

\* Box i of the flat vector is a proper box of an instantiated level.
VecBoxGoes(i) ==
    LET box == VecBox(last.vec, i)
    IN  box[1] <= last.nb - 1 /\ box[2] < box[3] /\ box[3] <= NumCells(box[1])

\* The explicit-levels constructor was given a well-formed matrix of proper
\* boxes and at least as many levels as boxes, not none.
LvlCall ==
    /\ last.op = "ctorLvl"
    /\ MatRows(last.mat) = d
    /\ MatCols(last.mat) % 2 = 0
    /\ NumMatBoxes(last.mat) <= Len(last.levels)
    /\ Len(last.levels) > 0
    /\ \A i \in 0 .. (NumMatBoxes(last.mat) - 1) :
         MatBox(last.mat, i)[1] < MatBox(last.mat, i)[2]

\* C18: an insertion at a level that is not instantiated, with no
\* needLevel before it, fails and leaves the tree as the insertions before
\* it left it; the constructor with explicit levels never fails this way,
\* it instantiates the highest level given before it inserts.
C18_InsertNeedsLevel ==
    /\ VecCall =>
         \A i \in 0 .. (NumVecBoxes(last.vec) - 1) :
            ( /\ VecBox(last.vec, i)[1] > last.nb - 1
              /\ \A j \in 0 .. (i - 1) : VecBoxGoes(j) ) =>
               /\ pc = "aborted"
               /\ m_bases = last.nb
               /\ m_tree =
                    ctorVecLoop(initialize_class(last.nb),
                                SubSeq(last.vec, 1, (2 * d + 1) * i),
                                0).m_tree
               /\ \A c \in Points : lvlAt(c) <= m_bases - 1
    /\ LvlCall =>
         /\ pc = "ready"
         /\ m_bases >= last.nb
         /\ \A k \in 1 .. Len(last.levels) : last.levels[k] <= m_bases - 1
         /\ \A i \in 0 .. (NumMatBoxes(last.mat) - 1) :
              \E c \in Points : lvlAt(c) >= last.levels[i + 1]

\* The flat-vector constructor inserted a first box and failed on a second
\* one whose level is not instantiated.
C18_Witness ==
    /\ VecCall
    /\ NumVecBoxes(last.vec) = 2
    /\ VecBoxGoes(0)
    /\ VecBox(last.vec, 0)[1] = 1
    /\ VecBox(last.vec, 1)[1] > last.nb - 1
    /\ pc = "aborted"
    /\ \E c \in Points : lvlAt(c) = 1

\* C19: each of the four constructors rejects nlevels <= 0 with a fatal
\* assertion before the basis is initialized or any box is inserted.
C19_RejectsNoLevels ==
    ( IsCtor /\ last.nlevels <= 0 ) =>
       /\ pc = "aborted"
       /\ m_bases = 0
       /\ m_tree = TreeInit

\* The box specification a constructor was given is malformed: the flat
\* vector is no list of whole boxes, the matrix has not d rows or has an
\* odd number of columns, there are fewer levels than boxes, or some box
\* has a lower corner that is not below its upper corner.
Malformed ==
    \/ /\ last.op = "ctorVec"
       /\ \/ Len(last.vec) % (2 * d + 1) # 0
          \/ \E i \in 0 .. (NumVecBoxes(last.vec) - 1) :
                ~(VecBox(last.vec, i)[2] < VecBox(last.vec, i)[3])
    \/ /\ last.op \in {"ctorMat", "ctorLvl"}
       /\ \/ MatRows(last.mat) # d
          \/ MatCols(last.mat) % 2 # 0
          \/ \E i \in 0 .. (NumMatBoxes(last.mat) - 1) :
                ~(MatBox(last.mat, i)[1] < MatBox(last.mat, i)[2])
    \/ /\ last.op = "ctorLvl"
       /\ NumMatBoxes(last.mat) > Len(last.levels)

\* The shape of the specification is wrong (no box can be read off it).
BadShape ==
    \/ last.op = "ctorVec" /\ Len(last.vec) % (2 * d + 1) # 0
    \/ /\ last.op \in {"ctorMat", "ctorLvl"}
       /\ MatRows(last.mat) # d \/ MatCols(last.mat) % 2 # 0
    \/ last.op = "ctorLvl" /\ NumMatBoxes(last.mat) > Len(last.levels)

\* The number of boxes that precede the first box whose lower corner is
\* not below its upper corner (all of them if there is none).
ProperPrefix ==
    LET n   == IF last.op = "ctorVec" THEN NumVecBoxes(last.vec)
               ELSE NumMatBoxes(last.mat)
        bad == { i \in 0 .. (n - 1) :
                   IF last.op = "ctorVec"
                   THEN ~(VecBox(last.vec, i)[2] < VecBox(last.vec, i)[3])
                   ELSE ~(MatBox(last.mat, i)[1] < MatBox(last.mat, i)[2]) }
    IN  IF bad = {} THEN n
        ELSE CHOOSE i \in bad : \A k \in bad : i <= k

\* The tree the constructor builds from the boxes of ProperPrefix alone.
PrefixTree ==
    IF BadShape THEN TreeInit
    ELSE IF last.op = "ctorVec"
    THEN ctorVec(last.nb, last.nlevels,
                 SubSeq(last.vec, 1, (2 * d + 1) * ProperPrefix)).m_tree
    ELSE LET m == [rows |-> d,
                   cols |-> SubSeq(last.mat.cols, 1, 2 * ProperPrefix)]
         IN  IF last.op = "ctorMat"
             THEN ctorMat(last.nb, last.nlevels, m).m_tree
             ELSE ctorLvl(last.nb, last.nlevels, m, last.levels, 0).m_tree

\* C20: a malformed box specification is a fatal precondition violation
\* and no box of it is inserted into the tree: none at all when its shape
\* is wrong, none from the first improper box on otherwise.
C20_MalformedIsFatal ==
    ( IsCtor /\ Malformed ) =>
       /\ pc = "aborted"
       /\ m_tree = PrefixTree

\* ------------------------------------------------------- queries' claims
\* The last call was one of the queries by global index.
IndexQuery == last.op \in {"levelOf", "flatTensorIndexOf", "elementSupport_into"}

\* C21: a query with a global index i >= size() is signalled as a fatal
\* precondition violation: the call ends in a failure, it returns no level
\* or index, and it has made no read outside a characteristic matrix.
C21_OutOfRangeIsFatal ==
    ( IndexQuery /\ last.i >= size(Self) ) =>
       /\ pc = "aborted"
       /\ xmatrixReadInBounds(Self, last.i)

\* The elements of sequence s.
Range(s) == { s[k] : k \in 1 .. Len(s) }

\* The global indices of the selected functions whose support holds the
\* cell of point x.
SelectedAt(x) ==
    { m_xmatrix_offset[l + 1] + k :
        <<l, k>> \in { <<l, k>> \in (0 .. (Len(m_xmatrix) - 1))
                                     \X (0 .. (NumFuncs(MaxLvl) - 1)) :
                         /\ k < Len(m_xmatrix[l + 1])
                         /\ cellOf(x) \in SupportPoints(l, m_xmatrix[l + 1][k + 1]) } }

\* The batch u with its points in the opposite order.
Reversed(u) == [k \in 1 .. Len(u) |-> u[Len(u) + 1 - k]]

ScenarioBox ==
    /\ last.lo = << m_tree.n, m_tree.n >>
    /\ last.hi = << 3 * m_tree.n, 3 * m_tree.n >>
ScenarioPoint == last.u = << 2 * m_tree.n, 2 * m_tree.n >>

\* The selected functions of level l of the d = 2 basis, as index pairs.
Sel2D(l) ==
    { Unflat2D(m_tree.n, l, m_xmatrix[l + 1][k]) : k \in 1 .. Len(m_xmatrix[l + 1]) }

\* The finest cells inside the box [last.lo, last.hi].
BoxCells2D ==
    { c \in FineCells2D(m_tree.n) :
        \A j \in Dirs : last.lo[j] <= 2 * c[j] /\ 2 * c[j] + 2 <= last.hi[j] }

\* C23: after refine with the box [0.25, 0.75]^2 on the d = 2 basis with
\* one extra level, maxLevel() is 1, size() is the number of selected
\* level-0 functions with support outside the box plus the number of
\* selected level-1 functions with support inside the box, and active_into
\* at (0.5, 0.5) returns only level-1 functions whose support holds it.
C23_Scenario2D ==
    ( pc = "ready" /\ last.by = "refine" /\ ScenarioBox ) =>
       /\ maxLevel(Self) = 1
       /\ size(Self) =
            Cardinality({ ij \in Sel2D(0) :
                            SupportCells2D(m_tree.n, 0, ij) \cap BoxCells2D = {} })
            + Cardinality({ ij \in Sel2D(1) :
                            SupportCells2D(m_tree.n, 1, ij) \subseteq BoxCells2D })
       /\ ( last.op = "active_into" /\ ScenarioPoint ) =>
             \A g \in last.act :
                /\ levelOf(Self, g) = 1
                /\ << cellOf2D(m_tree.n, last.u)[1], cellOf2D(m_tree.n, last.u)[2] >>
                     \in SupportCells2D(m_tree.n, 1,
                            Unflat2D(m_tree.n, 1, flatTensorIndexOf(Self, g)))

\* ------------------------------------------------- coefficient transfer
\* Some selected function of the basis is non-zero on cell c.
Covered(c) ==
    \E l \in 0 .. (Len(m_xmatrix) - 1) :
       \E k \in 1 .. Len(m_xmatrix[l + 1]) :
          c \in SupportPoints(l, m_xmatrix[l + 1][k])

\* C24: the spline given by M*c_old in the refined basis equals the spline
\* given by c_old in the original basis at every point of the domain,
\* whatever c_old is; so on every cell on which a function of the original
\* basis is non-zero, some function of the refined basis is non-zero.
C24_CoefficientPreserving ==
    [][ ( /\ Updated /\ Updated'
          /\ last'.op \in {"refine", "refineElements", "uniformRefine"} )
        => \A c \in Points : Covered(c) => Covered(c)' ]_vars

C26_DeepCopy ==
    [][ /\ ( last'.op = "copy" ) => ( Self' = Self /\ orig'.obj = Self )
        /\ ( last'.op # "copy" /\ orig # NoObject /\ last'.on = "copy" ) =>
              orig'.obj = orig.obj
        /\ ( last'.op # "copy" /\ orig # NoObject /\ last'.on = "original" ) =>
              Self' = Self
      ]_vars

\* A call on the copy has changed the copy's tree and matrices, and the
\* original still has those it was copied with.
C26_Witness ==
    /\ orig # NoObject
    /\ last.op \in {"refine", "refineElements"}
    /\ last.on = "copy"
    /\ pc = "ready"
    /\ m_tree # orig.obj.m_tree
    /\ m_xmatrix # orig.obj.m_xmatrix

\* ------------------------------------------------------------ gsFileRepo
\* The name starts with "/", "./" or "../".
Qualified(fn) ==
    \/ ( Len(fn) >= 1 /\ SubSeq(fn, 1, 1) = <<"/">> )
    \/ ( Len(fn) >= 2 /\ SubSeq(fn, 1, 2) = <<".", "/">> )
    \/ ( Len(fn) >= 3 /\ SubSeq(fn, 1, 3) = <<".", ".", "/">> )

\* The positions of the registered paths under which the name exists.
Hits == { k \in 1 .. Len(repo.m_paths) : (repo.m_paths[k] \o repo.arg) \in repo.files }

\* C27: find(fn) on a name starting with "/", "./" or "../" returns
\* whether that file exists and leaves fn; on another name it returns true
\* with fn replaced by p+fn for the first registered path p under which
\* p+fn exists, and false with fn unchanged when there is none.
C27_Find ==
    ( repo.ret # "none" ) =>
       IF Qualified(repo.arg)
       THEN /\ repo.ret = ( IF repo.arg \in repo.files THEN "true" ELSE "false" )
            /\ repo.fn = repo.arg
       ELSE IF Hits = {}
       THEN repo.ret = "false" /\ repo.fn = repo.arg
       ELSE /\ repo.ret = "true"
            /\ \E k \in Hits :
                  /\ \A j \in Hits : k <= j
                  /\ repo.fn = repo.m_paths[k] \o repo.arg

\* find has replaced the name by the file under the second of two
\* registered paths, the first one not holding it.
C27_Witness ==
    /\ repo.ret = "true"
    /\ ~Qualified(repo.arg)
    /\ Len(repo.m_paths) = 2
    /\ Hits = {2}
    /\ repo.fn = repo.m_paths[2] \o repo.arg

\* ------------------------------------------ _differenceBetweenKnotVectors
\* How many times x occurs in the sequence knots.
Count(knots, x) == Cardinality({ i \in 1 .. Len(knots) : knots[i] = x })

\* The multiplicity of x among the knots of v with indices lo .. hi.
MultIn(v, lo, hi, x) ==
    IF \E i \in lo .. hi : v[i + 1].u = x
    THEN (CHOOSE e \in { v[i + 1] : i \in lo .. hi } : e.u = x).m
    ELSE 0

\* C28: for nested knot vectors with ranges over one interval the loop
\* ends after exactly f_high - f_low + 1 iterations, never reads ckv at an
\* index above c_high, and leaves in knots, in non-decreasing order, every
\* fine knot of the range as often as its fine multiplicity exceeds its
\* coarse one (its whole multiplicity when ckv does not hold it).
C28_KnotDifference ==
    ( kv.at # "none" ) =>
       /\ kv.read <= kv.c_high
       /\ kv.iters <= kv.f_high - kv.f_low + 1
       /\ kv.f_index = kv.f_low + kv.iters
       /\ ( kv.at = "done" ) =>
             /\ kv.iters = kv.f_high - kv.f_low + 1
             /\ \A i \in 1 .. (Len(kv.knots) - 1) : kv.knots[i] <= kv.knots[i + 1]
             /\ \A x \in 0 .. (MaxKnots + 1) :
                   Count(kv.knots, x) =
                      Max(0, MultIn(kv.fkv, kv.f_low, kv.f_high, x)
                             - MultIn(kv.ckv, kv.c_low, kv.c_high, x))

\* The loop has ended after passing a fine knot that ckv does not hold and
\* a shared knot of higher fine multiplicity, with coarse knots left
\* beyond c_high.
C28_Witness ==
    /\ kv.at = "done"
    /\ kv.c_high + 1 < Len(kv.ckv)
    /\ \E x \in 1 .. MaxKnots :
          /\ MultIn(kv.ckv, kv.c_low, kv.c_high, x) = 0
          /\ Count(kv.knots, x) = 2
    /\ \E x \in 1 .. MaxKnots :
          /\ MultIn(kv.ckv, kv.c_low, kv.c_high, x) = 1
          /\ Count(kv.knots, x) = 1

\* -------------------------------------------------- per-level containers
\* C29: after every constructor the per-level bases and the characteristic
\* matrices number at least maxLevel() + 1 and the offset table has at
\* least maxLevel() + 2 entries, and the coordinate-box constructor given
\* well-formed boxes never reads m_bases[level + 1] out of bounds.
C29_LevelContainersCover ==
    IsCtor =>
       /\ ( pc = "ready" ) =>
             /\ m_bases >= maxLevel(Self) + 1
             /\ Len(m_xmatrix) >= maxLevel(Self) + 1
             /\ Len(m_xmatrix_offset) >= maxLevel(Self) + 2
       /\ ( last.op = "ctorMat" /\ last.nlevels > 0 /\ ~Malformed ) =>
             pc # "aborted"

\* ------------------------------------------------ gsCDRAssembler::assemble
\* The assembly calls of the log: everything but the reservation of the
\* sparse system and the warnings.
AssemblyCalls(log) ==
    SelectSeq(log, LAMBDA x : x \notin {"reserve", "gsWarn"})

\* The assembly calls a complete call of assemble() makes.
ExpectedCalls(c) ==
    IF c.numDofs = 0 THEN << "computeDirichletDofs" >>
    ELSE << "computeDirichletDofs", "gsVisitorCDR", "gsVisitorNeumann" >>
         \o ( IF c.DirichletStrategy = "nitsche"
              THEN << "gsVisitorNitsche" >>
              ELSE IF c.DirichletStrategy = "penalize"
                   THEN << "penalizeDirichletDofs" >>
                   ELSE << >> )
         \o << "finalize" >>

\* C30: assemble() on an uninitialized sparse system fails its assertion
\* with nothing called; otherwise computeDirichletDofs comes before every
\* other assembly call; with numDofs() = 0 the call returns with no
\* visitor pushed and no finalize; otherwise the CDR visitor, the Neumann
\* visitor, at most one of the Nitsche visitor and the diagonal
\* penalization (by DirichletStrategy), and finalize exactly once and
\* last follow in this order; no DG term is ever added.
C30_AssembleOrder ==
    ( cdr.at # "none" ) =>
       LET calls == AssemblyCalls(cdr.log)
           all   == ExpectedCalls(cdr)
       IN  /\ ~cdr.initialized => ( cdr.at \in {"assert", "aborted"} /\ cdr.log = << >> )
           /\ cdr.at # "aborted" \/ ~cdr.initialized
           /\ Len(calls) <= Len(all)
           /\ calls = SubSeq(all, 1, Len(calls))
           /\ ( cdr.at = "returned" ) => calls = all
           /\ \A i \in 1 .. Len(cdr.log) : cdr.log[i] # "gsVisitorDg"
           /\ Cardinality({ i \in 1 .. Len(calls) : calls[i] = "finalize" })
                 = IF cdr.at = "returned" /\ cdr.numDofs # 0 THEN 1 ELSE 0

\* assemble() has returned after a full assembly with Nitsche's method
\* under the dg interface strategy.
C30_Witness ==
    /\ cdr.at = "returned"
    /\ cdr.numDofs > 0
    /\ cdr.DirichletStrategy = "nitsche"
    /\ cdr.InterfaceStrategy = "dg"
    /\ cdr.log[Len(cdr.log)] = "finalize"

====
